---- MODULE Spec2Model ----
(***************************************************************************)
(* A model of the traffic-dispatch engine of the proxy gateway (package    *)
(* tunnel): rule resolution (resolveMetadata / match), the UDP NAT          *)
(* singleflight of handleUDPConn, the TCP handler handleTCPConn and the     *)
(* configuration updates made under configMux.                              *)
(*                                                                         *)
(* Each subsystem has its own specification over its own variables; the    *)
(* variables of the other subsystems are held at their idle values.        *)
(***************************************************************************)
EXTENDS Integers, Sequences, FiniteSets, TLC

VARIABLES
    mode,       \* tunnel.mode
    rules,      \* tunnel.rules, the ordered rule table
    proxies,    \* tunnel.proxies, name -> adapter object
    hosts,      \* resolver.DefaultHosts, host -> pinned IP
    call,       \* the resolveMetadata call made by the current step, or NoCall
    nat,        \* natTable: source key -> the packet conn installed (its owner), or NoConn
    lockTok,    \* natTable: key + "-lock" -> the condition variable stored (its creator), or NoCond
    upc,        \* where each UDP packet's handler (handleUDPConn and its goroutine) stands
    ucond,      \* the cond GetOrCreateLock returned to each packet's handler
    condL,      \* cond.L of each condition variable: the packet holding it, or NoPkt
    outcome,    \* what each owner's ListenPacketContext dial returned: "none", "ok" or "fail"
    reader,     \* the handleUDPToLocal task of each installed conn: "none", "running", "ended"
    forwarded,  \* the packets handed to handleUDPToRemote
    replaced,   \* the keys whose installed NAT entry a later owner overwrote
    ukey,       \* each packet's source key, packet.LocalAddr().String()
    tcp,        \* each TCP context's handler (handleTCPConn): position, metadata, sockets
    renv,       \* the resolver's enhanced mode: mapping, fake-IP pool, reverse mapping
    crashed,    \* an unrecovered panic has ended the process
    ruleProviders,  \* tunnel.ruleProviders
    upd,        \* each UpdateRules caller: position and arguments
    cfgWriter,  \* configMux: the caller holding the write lock, or NoCaller
    dnsAnswers, \* the addresses the DNS servers hold for a host: A and AAAA records
    run1,       \* the first of two rule evaluations on one snapshot, or NoCall
    run2,       \* the second evaluation, on the same metadata, or NoCall
    trie,       \* an IpCidrTrie: the nodes that exist and the nodes whose Tag is set
    inserted,   \* the well-formed CIDRs AddIpCidr has been called with
    lastAdd,    \* the latest AddIpCidr call: its argument, its error, the trie before it
    prov,       \* a ruleSetProvider with its fetcher: behavior, vehicle type, hash, count, rules
    files,      \* the file at vehicle.Path() and the content behind the vehicle's URL
    stable,     \* the bytes the last successful Initial or Update loaded, while no other bytes were fetched
    lastOp,     \* the latest Initial or Update call: what it did and what it returned
    socks,      \* a SOCKS4 handshake: the caller's arguments, the bytes on the stream, what the server returned
    vconn,      \* a VLESS connection being created: the bytes written to the stream, the value returned
    wsconn,     \* a websocketEDConn: whether it is dialled, closed, and the handshakes and frames it sent
    lis,        \* a Listen or ListenPacket call: the attempts made and what it returned
    pkt,        \* a UDP packet in handleUDPConn: its metadata, its position, the fAddr captured
    reload,     \* a configuration reload: its two maps, the order of its calls, its position
    flow,       \* each flow in resolveMetadata: position, the mode, rules and proxies it read
    wk,         \* a burst of UDP packets from distinct sources: where each packet's handling stands
    pull,       \* a fetcher: its Initial, its pull loop, its ticker, the done signal, the Updates issued
    dial,       \* an outbound adapter's DialContext call: the connection opened, the error returned
    vpc,        \* a vlessPacketConn: the bytes of the stream, the read position, what ReadFrom returned
    ipx         \* a Resolver.ipExchange call: the outcomes of the two server groups, what it returned

matchVars == <<mode, rules, proxies, hosts, call>>

udpVars == <<nat, lockTok, upc, ucond, condL, outcome, reader, forwarded, replaced, ukey>>

tcpVars == <<tcp, renv, crashed>>

cfgVars == <<ruleProviders, upd, cfgWriter>>

runVars == <<dnsAnswers, run1, run2>>

trieVars == <<trie, inserted, lastAdd>>

provVars == <<prov, files, stable, lastOp>>

wireVars == <<socks, vconn, wsconn, lis>>

flowVars == <<pkt, reload, flow>>

lateVars == <<wk, pull, dial, vpc, ipx>>

restVars == <<runVars, trieVars, provVars, wireVars, flowVars, lateVars>>

earlyVars == <<matchVars, udpVars, tcpVars, cfgVars, runVars, trieVars, provVars, wireVars, flowVars>>

vars == <<matchVars, udpVars, tcpVars, cfgVars, restVars>>

\* what the actions of one subsystem leave alone
outsideMatch == <<udpVars, tcpVars, cfgVars, restVars>>
outsideUDP == <<matchVars, tcpVars, cfgVars, restVars>>
outsideTCP == <<matchVars, udpVars, cfgVars, restVars>>
outsideCfg == <<mode, proxies, hosts, call, udpVars, tcpVars, restVars>>
outsideRuns == <<call, udpVars, tcpVars, cfgVars, trieVars, provVars, wireVars, flowVars, lateVars>>
outsideTrie == <<matchVars, udpVars, tcpVars, cfgVars, runVars, provVars, wireVars, flowVars, lateVars>>
outsideProv == <<matchVars, udpVars, tcpVars, cfgVars, runVars, trieVars, wireVars, flowVars, lateVars>>
outsideSocks == <<matchVars, udpVars, tcpVars, cfgVars, runVars, trieVars, provVars, vconn, wsconn, lis, flowVars, lateVars>>
outsideVless == <<matchVars, udpVars, tcpVars, cfgVars, runVars, trieVars, provVars, socks, wsconn, lis, flowVars, lateVars>>
outsideWs == <<matchVars, udpVars, tcpVars, cfgVars, runVars, trieVars, provVars, socks, vconn, lis, flowVars, lateVars>>
outsideAddr == <<matchVars, udpVars, tcpVars, cfgVars, runVars, trieVars, provVars, wireVars, reload, flow, lateVars>>
outsideReload == <<mode, hosts, call, udpVars, tcpVars, upd, runVars, trieVars, provVars, wireVars, pkt, lateVars>>
outsideWorkers == <<earlyVars, pull, dial, vpc, ipx>>
outsidePull == <<earlyVars, wk, dial, vpc, ipx>>
outsideDial == <<earlyVars, wk, pull, vpc, ipx>>
outsidePacket == <<earlyVars, wk, pull, dial, ipx>>
outsideExchange == <<earlyVars, wk, pull, dial, vpc>>
outsideListen == <<matchVars, udpVars, tcpVars, cfgVars, runVars, trieVars, provVars, socks, vconn, wsconn, flowVars, lateVars>>

(***************************************************************************)
(* Bounds                                                                  *)
(***************************************************************************)
\* longest rule table handed to UpdateRules
MaxRules == 2
\* UDP packets submitted to the UDP queue
MaxPackets == 3
\* TCP contexts submitted to the TCP queue
MaxConns == 2
\* concurrent callers of UpdateRules
MaxUpdaters == 2

(***************************************************************************)
(* Values                                                                  *)
(***************************************************************************)
Modes == {"Global", "Rule", "Direct"}

NoIP == "nil"
IPs == {"ip1", "ip2"}

\* Metadata.AddrType
AtypIPv4 == 1
AtypDomainName == 3
AtypIPv6 == 4

\* the addresses of IPs that are IPv6: ip.To4() is nil for them
IPv6Addrs == {"ip2"}
To4(ip) == ip \notin IPv6Addrs
NoHost == ""
HostNames == {"a", "b"}

NilProxy == "nil"
NoError == "none"

\* C.Metadata, reduced to the fields rule resolution reads and writes.
Valid(md) == md.host # NoHost \/ md.dstIP # NoIP

Metadatas ==
    {md \in [network : {"tcp", "udp"}, host : HostNames \cup {NoHost},
             dstIP : IPs \cup {NoIP}] : Valid(md)}

(***************************************************************************)
(* Adapter objects.  The proxy map holds references to them by name.       *)
(***************************************************************************)
AdapterObjects == {"direct", "global", "pass", "tcponly", "proxy", "exempt", "nested"}

AdapterType(a) ==
    CASE a = "direct" -> "Direct"
      [] a = "pass" -> "Pass"
      [] a \in {"global", "exempt", "nested"} -> "Selector"
      [] OTHER -> "Proxy"

SupportUDP(a) == a # "tcponly"

\* The member a group adapter currently selects; NilProxy for a plain adapter.
Unwrap(a, md) ==
    CASE a = "global" -> "proxy"
      [] a = "exempt" -> "pass"
      [] a = "nested" -> "exempt"
      [] OTHER -> NilProxy

EmptyProxies == [n \in {} |-> NilProxy]

FullProxies ==
    [n \in {"DIRECT", "GLOBAL", "PASS", "TCPONLY", "PROXY", "EXEMPT", "NESTED"} |->
        CASE n = "DIRECT" -> "direct"
          [] n = "GLOBAL" -> "global"
          [] n = "PASS" -> "pass"
          [] n = "TCPONLY" -> "tcponly"
          [] n = "PROXY" -> "proxy"
          [] n = "EXEMPT" -> "exempt"
          [] n = "NESTED" -> "nested"]

PartialProxies ==
    [n \in {"DIRECT", "PASS", "TCPONLY", "EXEMPT", "NESTED"} |-> FullProxies[n]]

ProxyMaps == {EmptyProxies, FullProxies, PartialProxies}

Lookup(px, n) == IF n \in DOMAIN px THEN px[n] ELSE NilProxy

(***************************************************************************)
(* Rules                                                                   *)
(***************************************************************************)
RuleUniverse ==
    { [kind |-> "DOMAIN", payload |-> "a", adapter |-> "PASS", noResolve |-> FALSE],
      [kind |-> "IPCIDR", payload |-> "ip1", adapter |-> "PROXY", noResolve |-> FALSE],
      [kind |-> "IPCIDR", payload |-> "ip1", adapter |-> "TCPONLY", noResolve |-> TRUE],
      [kind |-> "MATCH", payload |-> "", adapter |-> "EXEMPT", noResolve |-> FALSE],
      [kind |-> "MATCH", payload |-> "", adapter |-> "NESTED", noResolve |-> FALSE] }

RuleTables == UNION {[1..n -> RuleUniverse] : n \in 0..MaxRules}

RuleMatch(rule, md) ==
    CASE rule.kind = "DOMAIN" -> md.host # NoHost /\ md.host = rule.payload
      [] rule.kind = "IPCIDR" -> md.dstIP # NoIP /\ md.dstIP = rule.payload
      [] OTHER -> TRUE

RuleShouldResolveIP(rule) == rule.kind = "IPCIDR" /\ ~rule.noResolve

\* the hosts trie: "b" is pinned to ip2, no other host is
DefaultHosts == [h \in {"b"} |-> "ip2"]

HostsSearch(hs, host) == IF host \in DOMAIN hs THEN hs[host] ELSE NoIP

(***************************************************************************)
(* match and resolveMetadata                                               *)
(***************************************************************************)
shouldResolveIPWithDstIP(rule, md) == RuleShouldResolveIP(rule) /\ md.host # NoHost

\* line 347
shouldResolveIP(rule, md) ==
    RuleShouldResolveIP(rule) /\ md.host # NoHost /\ md.dstIP = NoIP

safeAssertProxyType(adapter, md, proxyType) ==
    IF adapter = NilProxy THEN FALSE
    ELSE LET proxy == Unwrap(adapter, md)
         IN IF proxy = NilProxy THEN FALSE ELSE AdapterType(proxy) = proxyType

\* line 376: the adapter of a matching rule makes match skip the rule
SkipAdapter(px, rule, md) ==
    LET adapter == Lookup(px, rule.adapter)
    IN \/ rule.adapter \notin DOMAIN px
       \/ AdapterType(adapter) = "Pass"
       \/ safeAssertProxyType(adapter, md, "Pass")

UDPUnsupportedNever(adapter, md) == FALSE

\* line 380
UDPUnsupported(adapter, md) == md.network = "udp" /\ ~SupportUDP(adapter)

MatchedProxyUnwrapped(px, rule, md) ==
    LET a == Lookup(px, rule.adapter)
    IN IF Unwrap(a, md) # NilProxy THEN Unwrap(a, md) ELSE a

\* lines 375, 384: the adapter returned with a rule
MatchedProxy(px, rule, md) == Lookup(px, rule.adapter)

resolvedOnSuccess(resolved, need, dns) == resolved \/ (need /\ dns # NoIP)

\* line 371: resolved = true, whether or not the resolver answered
resolvedAfter(resolved, need, dns) == resolved \/ need

\* The loop of match from rule i on.  dns is what resolver.ResolveIP answers
\* for the host (NoIP: an error); st counts the resolver calls and the rules
\* evaluated and keeps the rules before which the resolver was called.
RECURSIVE matchLoop(_, _, _, _, _, _, _)
matchLoop(i, md, resolved, dns, rs, px, st) ==
    IF i > Len(rs)
    THEN [proxy |-> Lookup(px, "DIRECT"), rule |-> 0, err |-> NoError, md |-> md,
          resolverCalls |-> st.resolverCalls, ruleEvals |-> st.ruleEvals,
          hostsLookups |-> 1, resolvedAt |-> st.resolvedAt]
    ELSE LET need == ~resolved /\ shouldResolveIP(rs[i], md)
             md1 == IF need /\ dns # NoIP THEN [md EXCEPT !.dstIP = dns] ELSE md
             st1 == [resolverCalls |-> st.resolverCalls + (IF need THEN 1 ELSE 0),
                     ruleEvals |-> st.ruleEvals + 1,
                     resolvedAt |-> IF need THEN Append(st.resolvedAt, i) ELSE st.resolvedAt]
             next == matchLoop(i + 1, md1, resolvedAfter(resolved, need, dns), dns, rs, px, st1)
         IN IF RuleMatch(rs[i], md1)
            THEN IF SkipAdapter(px, rs[i], md1) THEN next
                 ELSE IF UDPUnsupported(Lookup(px, rs[i].adapter), md1) THEN next
                 ELSE [proxy |-> MatchedProxy(px, rs[i], md1), rule |-> i,
                       err |-> NoError, md |-> md1,
                       resolverCalls |-> st1.resolverCalls,
                       ruleEvals |-> st1.ruleEvals, hostsLookups |-> 1,
                       resolvedAt |-> st1.resolvedAt]
            ELSE next

match(rs, px, hs, md, dns) ==
    LET ip == HostsSearch(hs, md.host)
        md0 == IF ip # NoIP THEN [md EXCEPT !.dstIP = ip] ELSE md
    IN matchLoop(1, md0, ip # NoIP, dns, rs, px,
                 [resolverCalls |-> 0, ruleEvals |-> 0, resolvedAt |-> <<>>])

Unconsulted(px, name, md) ==
    [proxy |-> Lookup(px, name), rule |-> 0, err |-> NoError, md |-> md,
     resolverCalls |-> 0, ruleEvals |-> 0, hostsLookups |-> 0, resolvedAt |-> <<>>]

resolveMetadataNoGlobal(m, rs, px, hs, md, dns) ==
    IF m = "Direct" THEN Unconsulted(px, "DIRECT", md) ELSE match(rs, px, hs, md, dns)

resolveMetadata(m, rs, px, hs, md, dns) ==
    CASE m = "Direct" -> Unconsulted(px, "DIRECT", md)
      [] m = "Global" -> Unconsulted(px, "GLOBAL", md)
      [] OTHER -> match(rs, px, hs, md, dns)

(***************************************************************************)
(* UDP packets, source keys and the NAT table's idle state                 *)
(***************************************************************************)
Pkts == 1..MaxPackets
NoPkt == 0
Keys == {"k1", "k2"}
NoConn == 0
NoCond == 0

\* numUDPWorkers := 4, raised to runtime.NumCPU() when that is larger
NumUDPWorkers == 4

\* nat.New(): an empty table; no packet submitted.
IdleUDP ==
    /\ nat = [k \in Keys |-> NoConn]
    /\ lockTok = [k \in Keys |-> NoCond]
    /\ upc = [p \in Pkts |-> "none"]
    /\ ucond = [p \in Pkts |-> NoCond]
    /\ condL = [c \in Pkts |-> NoPkt]
    /\ outcome = [p \in Pkts |-> "none"]
    /\ reader = [p \in Pkts |-> "none"]
    /\ forwarded = {}
    /\ replaced = {}
    /\ ukey = [p \in Pkts |-> "k1"]

(***************************************************************************)
(* TCP contexts, the resolver's enhanced mode, configuration callers       *)
(***************************************************************************)
Conns == 1..MaxConns
Updaters == 1..MaxUpdaters
NoCaller == 0
NilProviders == "nil"

FakeIPs == {"fake1", "fake2"}

\* net.ParseIP(host): a host that is an IP literal, or NoIP
ParseIP(host) == IF host \in IPs \cup FakeIPs THEN host ELSE NoIP

NoMapping == [i \in {} |-> NoHost]

\* enhanced mode off; fake-IP mode with fake1 mapped to "a" and fake2
\* unmapped; redir-host mode with ip1 mapped to "b"
ResolverEnvs ==
    { [mapping |-> FALSE, fakeIP |-> FALSE, reverse |-> NoMapping],
      [mapping |-> TRUE, fakeIP |-> TRUE, reverse |-> [i \in {"fake1"} |-> "a"]],
      [mapping |-> TRUE, fakeIP |-> FALSE, reverse |-> [i \in {"ip1"} |-> "b"]],
      \* fake-IP mode with fake1 mapped to "b", a name the hosts file pins;
      \* redir-host mode with ip1 mapped to "a", a name the hosts file lacks
      [mapping |-> TRUE, fakeIP |-> TRUE, reverse |-> [i \in {"fake1"} |-> "b"]],
      [mapping |-> TRUE, fakeIP |-> FALSE, reverse |-> [i \in {"ip1"} |-> "a"]] }

NoConnState ==
    [pc |-> "none", md |-> [network |-> "tcp", host |-> NoHost, dstIP |-> NoIP,
                            addrType |-> AtypIPv4],
     passed |-> {}, proxy |-> NilProxy, dialed |-> FALSE, remote |-> "none",
     inbound |-> "open", panicking |-> FALSE]

IdleTCP ==
    /\ tcp = [c \in Conns |-> NoConnState]
    /\ renv = [mapping |-> FALSE, fakeIP |-> FALSE, reverse |-> NoMapping]
    /\ crashed = FALSE

IdleCfg ==
    /\ ruleProviders = NilProviders
    /\ upd = [u \in Updaters |-> [pc |-> "idle"]]
    /\ cfgWriter = NoCaller

NoCall == [made |-> FALSE]

(***************************************************************************)
(* Idle values of the resolver's records and of the paired evaluations     *)
(***************************************************************************)
IdleRuns ==
    /\ dnsAnswers = [a |-> <<>>, aaaa |-> <<>>]
    /\ run1 = NoCall
    /\ run2 = NoCall

\* NewIpCidrTrie.  A node is named by the octets on the path to it.  The
\* root is built with all its 256 children and never loses one, so child
\* holds the nodes that exist below them; no node is tagged.
NewIpCidrTrie == [Tag |-> {}, child |-> {}]

NoAdd == [input |-> "", err |-> NoError, before |-> NewIpCidrTrie]

IdleTrie ==
    /\ trie = NewIpCidrTrie
    /\ inserted = {}
    /\ lastAdd = NoAdd

\* no bytes: a file that does not exist, a read that failed
NoBytes == [there |-> FALSE]

\* the zero value of fetcher.hash
ZeroHash == [sum |-> NoBytes]

NilRules == [nil |-> TRUE]

NoOp == [op |-> "none"]

\* NewRuleSetProvider: no rules, count 0, the zero hash; Initial not called
NewRuleSetProvider(behavior, vehicleType) ==
    [behavior |-> behavior, vehicleType |-> vehicleType, hash |-> ZeroHash,
     count |-> 0, rules |-> NilRules, phase |-> "new"]

IdleProvider ==
    /\ prov = NewRuleSetProvider("IPCIDR", "File")
    /\ files = [disk |-> NoBytes, remote |-> NoBytes]
    /\ stable = NoBytes
    /\ lastOp = NoOp

\* no handshake, connection or listen call under way
Unused == [pc |-> "unused"]

IdleWire ==
    /\ socks = Unused
    /\ vconn = Unused
    /\ wsconn = Unused
    /\ lis = Unused

IdleFlow ==
    /\ pkt = Unused
    /\ reload = Unused
    /\ flow = Unused

IdleLate ==
    /\ wk = Unused
    /\ pull = Unused
    /\ dial = Unused
    /\ vpc = Unused
    /\ ipx = Unused

IdleRest == IdleRuns /\ IdleTrie /\ IdleProvider /\ IdleWire /\ IdleFlow /\ IdleLate

(***************************************************************************)
(* The engine's configuration and the calls made against it                *)
(***************************************************************************)

InitMatch ==
    /\ mode = "Rule"
    /\ rules = <<>>
    /\ proxies = EmptyProxies
    /\ hosts = DefaultHosts
    /\ call = NoCall
    /\ IdleUDP
    /\ IdleTCP
    /\ IdleCfg
    /\ IdleRest

SetMode(m) ==
    /\ mode' = m
    /\ call' = NoCall
    /\ UNCHANGED <<rules, proxies, hosts, outsideMatch>>

UpdateRules(newRules) ==
    /\ rules' = newRules
    /\ call' = NoCall
    /\ UNCHANGED <<mode, proxies, hosts, outsideMatch>>

UpdateProxies(newProxies) ==
    /\ proxies' = newProxies
    /\ call' = NoCall
    /\ UNCHANGED <<mode, rules, hosts, outsideMatch>>

\* One resolveMetadata call on metadata md, the resolver answering dns.
Resolve(md, dns) ==
    /\ call' = [made |-> TRUE, input |-> md, dns |-> dns,
                ret |-> resolveMetadata(mode, rules, proxies, hosts, md, dns)]
    /\ UNCHANGED <<mode, rules, proxies, hosts, outsideMatch>>

NextMatch ==
    \/ \E m \in Modes : SetMode(m)
    \/ \E t \in RuleTables : UpdateRules(t)
    \/ \E px \in ProxyMaps : UpdateProxies(px)
    \/ \E md \in Metadatas, dns \in IPs \cup {NoIP} : Resolve(md, dns)

SpecMatch == InitMatch /\ [][NextMatch]_vars

(***************************************************************************)
(* handleUDPConn: the per-key singleflight over the NAT table              *)
(***************************************************************************)
\* The metadata of the packets: a valid UDP flow to an IP destination.
UDPMetadata == [network |-> "udp", host |-> NoHost, dstIP |-> "ip1"]

\* The handler runs inline in a processUDP worker up to the go statement.
InlineStates == {"handle", "getlock"}
OwnerStates == {"o_resolve", "o_dial", "o_set", "o_handle", "o_delete"}
WaiterStates == {"w_lock", "w_wait", "w_blocked", "w_woken", "w_handle"}

InitUDP ==
    /\ mode = "Rule"
    /\ rules = <<>>
    /\ proxies = FullProxies
    /\ hosts = DefaultHosts
    /\ call = NoCall
    /\ nat = [k \in Keys |-> NoConn]
    /\ lockTok = [k \in Keys |-> NoCond]
    /\ upc = [p \in Pkts |-> "queued"]
    /\ ucond = [p \in Pkts |-> NoCond]
    /\ condL = [c \in Pkts |-> NoPkt]
    /\ outcome = [p \in Pkts |-> "none"]
    /\ reader = [p \in Pkts |-> "none"]
    /\ forwarded = {}
    /\ replaced = {}
    /\ ukey \in {f \in [Pkts -> Keys] : f[1] = "k1"}
    /\ IdleTCP
    /\ IdleCfg
    /\ IdleRest

\* natTable.Get(key)
natGet(k) == nat[k]

\* handle(): forward through the NAT entry when there is one (lines 229-236)
handle(p) == IF natGet(ukey[p]) # NoConn THEN forwarded \cup {p} ELSE forwarded

\* processUDP takes the packet off udpQueue; handleUDPConn validates and
\* pre-handles its metadata and drops the packet when either fails.
UDPDequeue(p) ==
    /\ upc[p] = "queued"
    /\ Cardinality({q \in Pkts : upc[q] \in InlineStates}) < NumUDPWorkers
    /\ \E ok \in BOOLEAN :
          upc' = [upc EXCEPT ![p] = IF ok /\ Valid(UDPMetadata) THEN "handle" ELSE "done"]
    /\ UNCHANGED <<nat, lockTok, ucond, condL, outcome, reader, forwarded, replaced, ukey>>
    /\ UNCHANGED outsideUDP

\* lines 238-240: if handle() { return }
UDPHandleFirst(p) ==
    /\ upc[p] = "handle"
    /\ forwarded' = handle(p)
    /\ upc' = [upc EXCEPT ![p] = IF natGet(ukey[p]) # NoConn THEN "done" ELSE "getlock"]
    /\ UNCHANGED <<nat, lockTok, ucond, condL, outcome, reader, replaced, ukey>>
    /\ UNCHANGED outsideUDP

SpawnTargetIgnoringLoaded(loaded) == "o_resolve"

\* lines 245-253: the goroutine waits when the lock was loaded, owns otherwise
SpawnTarget(loaded) == IF loaded THEN "w_lock" ELSE "o_resolve"

\* natTable.GetOrCreateLock(lockKey), then the go statement
UDPGetOrCreateLock(p) ==
    /\ upc[p] = "getlock"
    /\ LET k == ukey[p]
           loaded == lockTok[k] # NoCond
       IN /\ lockTok' = IF loaded THEN lockTok ELSE [lockTok EXCEPT ![k] = p]
          /\ ucond' = [ucond EXCEPT ![p] = IF loaded THEN lockTok[k] ELSE p]
          /\ upc' = [upc EXCEPT ![p] = SpawnTarget(loaded)]
    /\ UNCHANGED <<nat, condL, outcome, reader, forwarded, replaced, ukey>>
    /\ UNCHANGED outsideUDP

\* cond.L.Lock()
WaiterLock(p) ==
    /\ upc[p] = "w_lock"
    /\ condL[ucond[p]] = NoPkt
    /\ condL' = [condL EXCEPT ![ucond[p]] = p]
    /\ upc' = [upc EXCEPT ![p] = "w_wait"]
    /\ UNCHANGED <<nat, lockTok, ucond, outcome, reader, forwarded, replaced, ukey>>
    /\ UNCHANGED outsideUDP

\* cond.Wait(): join the notify list, release cond.L and suspend
WaiterWait(p) ==
    /\ upc[p] = "w_wait"
    /\ condL' = [condL EXCEPT ![ucond[p]] = NoPkt]
    /\ upc' = [upc EXCEPT ![p] = "w_blocked"]
    /\ UNCHANGED <<nat, lockTok, ucond, outcome, reader, forwarded, replaced, ukey>>
    /\ UNCHANGED outsideUDP

\* cond.Wait() returning after a broadcast: take cond.L again
WaiterResume(p) ==
    /\ upc[p] = "w_woken"
    /\ condL[ucond[p]] = NoPkt
    /\ condL' = [condL EXCEPT ![ucond[p]] = p]
    /\ upc' = [upc EXCEPT ![p] = "w_handle"]
    /\ UNCHANGED <<nat, lockTok, ucond, outcome, reader, forwarded, replaced, ukey>>
    /\ UNCHANGED outsideUDP

\* handle(); cond.L.Unlock(); return
WaiterHandle(p) ==
    /\ upc[p] = "w_handle"
    /\ forwarded' = handle(p)
    /\ condL' = [condL EXCEPT ![ucond[p]] = NoPkt]
    /\ upc' = [upc EXCEPT ![p] = "done"]
    /\ UNCHANGED <<nat, lockTok, ucond, outcome, reader, replaced, ukey>>
    /\ UNCHANGED outsideUDP

\* lines 259-264: resolveMetadata; an error runs the deferred function
OwnerResolve(p) ==
    /\ upc[p] = "o_resolve"
    /\ LET r == resolveMetadata(mode, rules, proxies, hosts, UDPMetadata, NoIP)
       IN upc' = [upc EXCEPT ![p] = IF r.err # NoError THEN "o_delete" ELSE "o_dial"]
    /\ UNCHANGED <<nat, lockTok, ucond, condL, outcome, reader, forwarded, replaced, ukey>>
    /\ UNCHANGED outsideUDP

\* lines 266-276: proxy.ListenPacketContext; an error runs the deferred function
OwnerDial(p) ==
    /\ upc[p] = "o_dial"
    /\ \E ok \in BOOLEAN :
          /\ outcome' = [outcome EXCEPT ![p] = IF ok THEN "ok" ELSE "fail"]
          /\ upc' = [upc EXCEPT ![p] = IF ok THEN "o_set" ELSE "o_delete"]
    /\ UNCHANGED <<nat, lockTok, ucond, condL, reader, forwarded, replaced, ukey>>
    /\ UNCHANGED outsideUDP

\* lines 291-293: go handleUDPToLocal(...); natTable.Set(key, pc)
OwnerSet(p) ==
    /\ upc[p] = "o_set"
    /\ reader' = [reader EXCEPT ![p] = "running"]
    /\ replaced' = IF nat[ukey[p]] # NoConn THEN replaced \cup {ukey[p]} ELSE replaced
    /\ nat' = [nat EXCEPT ![ukey[p]] = p]
    /\ upc' = [upc EXCEPT ![p] = "o_handle"]
    /\ UNCHANGED <<lockTok, ucond, condL, outcome, forwarded, ukey>>
    /\ UNCHANGED outsideUDP

\* line 294: handle()
OwnerHandle(p) ==
    /\ upc[p] = "o_handle"
    /\ forwarded' = handle(p)
    /\ upc' = [upc EXCEPT ![p] = "o_delete"]
    /\ UNCHANGED <<nat, lockTok, ucond, condL, outcome, reader, replaced, ukey>>
    /\ UNCHANGED outsideUDP

\* deferred, line 255: natTable.Delete(lockKey)
OwnerDelete(p) ==
    /\ upc[p] = "o_delete"
    /\ lockTok' = [lockTok EXCEPT ![ukey[p]] = NoCond]
    /\ upc' = [upc EXCEPT ![p] = "o_broadcast"]
    /\ UNCHANGED <<nat, ucond, condL, outcome, reader, forwarded, replaced, ukey>>
    /\ UNCHANGED outsideUDP

\* deferred, line 256: cond.Broadcast() wakes the tasks suspended in Wait
OwnerBroadcast(p) ==
    /\ upc[p] = "o_broadcast"
    /\ upc' = [q \in Pkts |->
                 IF q = p THEN "done"
                 ELSE IF upc[q] = "w_blocked" /\ ucond[q] = ucond[p] THEN "w_woken"
                 ELSE upc[q]]
    /\ UNCHANGED <<nat, lockTok, ucond, condL, outcome, reader, forwarded, replaced, ukey>>
    /\ UNCHANGED outsideUDP

\* handleUDPToLocal ending (idle timeout or read error): natTable.Delete(key)
ReaderEnds(p) ==
    /\ reader[p] = "running"
    /\ reader' = [reader EXCEPT ![p] = "ended"]
    /\ nat' = [nat EXCEPT ![ukey[p]] = NoConn]
    /\ UNCHANGED <<lockTok, upc, ucond, condL, outcome, forwarded, replaced, ukey>>
    /\ UNCHANGED outsideUDP

UDPStep(p) ==
    \/ UDPDequeue(p)
    \/ UDPHandleFirst(p)
    \/ UDPGetOrCreateLock(p)
    \/ WaiterLock(p)
    \/ WaiterWait(p)
    \/ WaiterResume(p)
    \/ WaiterHandle(p)
    \/ OwnerResolve(p)
    \/ OwnerDial(p)
    \/ OwnerSet(p)
    \/ OwnerHandle(p)
    \/ OwnerDelete(p)
    \/ OwnerBroadcast(p)

NextUDP == \E p \in Pkts : UDPStep(p) \/ ReaderEnds(p)

SpecUDP == InitUDP /\ [][NextUDP]_vars

\* The Go scheduler runs every runnable goroutine: each handler step that
\* stays enabled is eventually taken.  The NAT reader's end waits on traffic
\* and on a timeout, and is not forced.
FairSpecUDP == SpecUDP /\ \A p \in Pkts : WF_vars(UDPStep(p))

(***************************************************************************)
(* handleTCPConn                                                           *)
(***************************************************************************)
\* resolver.FindHostByIP
FindHostByIP(env, ip) == IF ip \in DOMAIN env.reverse THEN env.reverse[ip] ELSE NoHost

\* resolver.IsFakeIP
IsFakeIP(env, ip) == env.fakeIP /\ ip \in FakeIPs

needLookupIP(env, md) == env.mapping /\ md.host = NoHost /\ md.dstIP # NoIP

\* the destination IP the spec's sentence describes: null unless pinned
dstIPNullUnlessPinned(env, hs, host, dstIP) == HostsSearch(hs, host)

\* lines 182-187: fake-IP mode drops the destination IP; otherwise it becomes
\* the address the hosts file holds for the name, or stays when there is none
dstIPAfterMapping(env, hs, host, dstIP) ==
    IF env.fakeIP THEN NoIP
    ELSE IF HostsSearch(hs, host) # NoIP THEN HostsSearch(hs, host)
    ELSE dstIP

\* preHandleMetadata: the metadata it leaves and whether it returns an error
preHandleMetadata(env, hs, md) ==
    LET ip == ParseIP(md.host)
        md1 == IF ip # NoIP
               THEN [md EXCEPT !.dstIP = ip, !.host = NoHost,
                               !.addrType = IF To4(ip) THEN AtypIPv4 ELSE AtypIPv6]
               ELSE md
    IN IF needLookupIP(env, md1)
       THEN LET host == FindHostByIP(env, md1.dstIP)
            IN IF host # NoHost
               THEN [err |-> FALSE,
                     md |-> [md1 EXCEPT
                                !.host = host,
                                !.addrType = AtypDomainName,
                                !.dstIP = dstIPAfterMapping(env, hs, host, md1.dstIP)]]
               ELSE [err |-> IsFakeIP(env, md1.dstIP), md |-> md1]
       ELSE [err |-> FALSE, md |-> md1]

TCPInputs ==
    { [network |-> "tcp", host |-> NoHost, dstIP |-> NoIP, addrType |-> AtypIPv4],
      [network |-> "tcp", host |-> "a", dstIP |-> NoIP, addrType |-> AtypDomainName],
      [network |-> "tcp", host |-> "ip1", dstIP |-> NoIP, addrType |-> AtypDomainName],
      [network |-> "tcp", host |-> "ip2", dstIP |-> NoIP, addrType |-> AtypDomainName],
      [network |-> "tcp", host |-> NoHost, dstIP |-> "ip1", addrType |-> AtypIPv4],
      [network |-> "tcp", host |-> NoHost, dstIP |-> "fake1", addrType |-> AtypIPv4],
      [network |-> "tcp", host |-> NoHost, dstIP |-> "fake2", addrType |-> AtypIPv4] }

InitTCP ==
    /\ mode = "Rule"
    /\ rules = <<[kind |-> "IPCIDR", payload |-> "ip1", adapter |-> "PROXY",
                  noResolve |-> FALSE]>>
    /\ proxies \in {EmptyProxies, FullProxies}
    /\ hosts = DefaultHosts
    /\ call = NoCall
    /\ IdleUDP
    /\ IdleCfg
    /\ tcp \in [Conns -> {[NoConnState EXCEPT !.pc = "queued", !.md = md] : md \in TCPInputs}]
    /\ renv \in ResolverEnvs
    /\ crashed = FALSE
    /\ IdleRest

\* process(): go handleTCPConn(conn); line 299 defers the inbound Close
TCPDequeue(c) ==
    /\ ~crashed
    /\ tcp[c].pc = "queued"
    /\ tcp' = [tcp EXCEPT ![c].pc = "validate"]
    /\ UNCHANGED <<renv, crashed>>
    /\ UNCHANGED outsideTCP

AfterValidateDeferLate(ok) == IF ok THEN "prehandle" ELSE "done"

\* lines 299-305: an invalid metadata returns, which runs the deferred Close
AfterValidate(ok) == IF ok THEN "prehandle" ELSE "closing"

TCPValidate(c) ==
    /\ ~crashed
    /\ tcp[c].pc = "validate"
    /\ tcp' = [tcp EXCEPT ![c].pc = AfterValidate(Valid(tcp[c].md)),
                          ![c].passed = IF Valid(tcp[c].md) THEN {"valid"} ELSE {}]
    /\ UNCHANGED <<renv, crashed>>
    /\ UNCHANGED outsideTCP

\* lines 307-310
TCPPreHandle(c) ==
    /\ ~crashed
    /\ tcp[c].pc = "prehandle"
    /\ LET r == preHandleMetadata(renv, hosts, tcp[c].md)
       IN tcp' = [tcp EXCEPT ![c].pc = IF r.err THEN "closing" ELSE "resolve",
                             ![c].md = r.md,
                             ![c].passed = IF r.err THEN @ ELSE @ \cup {"prehandle"}]
    /\ UNCHANGED <<renv, crashed>>
    /\ UNCHANGED outsideTCP

\* lines 312-316
TCPResolve(c) ==
    /\ ~crashed
    /\ tcp[c].pc = "resolve"
    /\ \E dns \in IPs \cup {NoIP} :
          LET r == resolveMetadata(mode, rules, proxies, hosts, tcp[c].md, dns)
          IN tcp' = [tcp EXCEPT ![c].pc = IF r.err # NoError THEN "closing" ELSE "dial",
                                ![c].md = r.md,
                                ![c].proxy = r.proxy,
                                ![c].passed = IF r.err # NoError THEN @ ELSE @ \cup {"resolve"}]
    /\ UNCHANGED <<renv, crashed>>
    /\ UNCHANGED outsideTCP

\* lines 318-330: proxy.DialContext; a nil proxy panics, an error returns, a
\* connection is wrapped and its Close deferred
TCPDial(c) ==
    /\ ~crashed
    /\ tcp[c].pc = "dial"
    /\ IF tcp[c].proxy = NilProxy
       THEN tcp' = [tcp EXCEPT ![c].pc = "closing", ![c].panicking = TRUE]
       ELSE \E ok \in BOOLEAN :
               tcp' = [tcp EXCEPT ![c].pc = IF ok THEN "relay" ELSE "closing",
                                  ![c].dialed = TRUE,
                                  ![c].remote = IF ok THEN "open" ELSE "none"]
    /\ UNCHANGED <<renv, crashed>>
    /\ UNCHANGED outsideTCP

\* line 343: handleSocket returns when either direction of the relay ends
TCPRelay(c) ==
    /\ ~crashed
    /\ tcp[c].pc = "relay"
    /\ tcp' = [tcp EXCEPT ![c].pc = "closing"]
    /\ UNCHANGED <<renv, crashed>>
    /\ UNCHANGED outsideTCP

\* the deferred calls, last first: remoteConn.Close(), cancel(), Conn().Close();
\* they run on a panic too, after which the process ends
TCPDeferred(c) ==
    /\ ~crashed
    /\ tcp[c].pc = "closing"
    /\ tcp' = [tcp EXCEPT ![c].pc = "done",
                          ![c].remote = IF @ = "open" THEN "closed" ELSE @,
                          ![c].inbound = "closed"]
    /\ crashed' = tcp[c].panicking
    /\ UNCHANGED renv
    /\ UNCHANGED outsideTCP

NextTCP ==
    \E c \in Conns :
        \/ TCPDequeue(c)
        \/ TCPValidate(c)
        \/ TCPPreHandle(c)
        \/ TCPResolve(c)
        \/ TCPDial(c)
        \/ TCPRelay(c)
        \/ TCPDeferred(c)

SpecTCP == InitTCP /\ [][NextTCP]_vars

\* lines 155-158: the loop of process() is a task the scheduler keeps running;
\* nothing is assumed of the handlers, which may block at any step
FairSpecTCP == SpecTCP /\ \A c \in Conns : WF_vars(TCPDequeue(c))

(***************************************************************************)
(* UpdateRules under configMux                                             *)
(***************************************************************************)
\* the rule lists and rule-provider maps callers pass
RuleListInputs == {t \in RuleTables : Len(t) <= 1}
ProviderInputs == {"rp1", "rp2"}

InitCfg ==
    /\ mode = "Rule"
    /\ rules = <<>>
    /\ proxies = EmptyProxies
    /\ hosts = DefaultHosts
    /\ call = NoCall
    /\ IdleUDP
    /\ IdleTCP
    /\ IdleRest
    /\ IdleCfg

\* a caller enters UpdateRules(newRules, rp)
UpdateRulesCall(u, newRules, rp) ==
    /\ upd[u].pc = "idle"
    /\ upd' = [upd EXCEPT ![u] = [pc |-> "calling", newRules |-> newRules, rp |-> rp]]
    /\ UNCHANGED <<rules, ruleProviders, cfgWriter>>
    /\ UNCHANGED outsideCfg

LockFreeAlways == TRUE

\* sync.RWMutex.Lock returns only while no other caller holds the lock
LockFree == cfgWriter = NoCaller

\* line 98: configMux.Lock()
UpdateRulesLock(u) ==
    /\ upd[u].pc = "calling"
    /\ LockFree
    /\ cfgWriter' = u
    /\ upd' = [upd EXCEPT ![u].pc = "locked"]
    /\ UNCHANGED <<rules, ruleProviders>>
    /\ UNCHANGED outsideCfg

\* line 99: rules = newRules
UpdateRulesSetRules(u) ==
    /\ upd[u].pc = "locked"
    /\ rules' = upd[u].newRules
    /\ upd' = [upd EXCEPT ![u].pc = "rulesSet"]
    /\ UNCHANGED <<ruleProviders, cfgWriter>>
    /\ UNCHANGED outsideCfg

\* line 100: ruleProviders = rp
UpdateRulesSetProviders(u) ==
    /\ upd[u].pc = "rulesSet"
    /\ ruleProviders' = upd[u].rp
    /\ upd' = [upd EXCEPT ![u].pc = "providersSet"]
    /\ UNCHANGED <<rules, cfgWriter>>
    /\ UNCHANGED outsideCfg

\* line 101: configMux.Unlock(), and the call returns
UpdateRulesUnlock(u) ==
    /\ upd[u].pc = "providersSet"
    /\ cfgWriter' = NoCaller
    /\ upd' = [upd EXCEPT ![u].pc = "returned"]
    /\ UNCHANGED <<rules, ruleProviders>>
    /\ UNCHANGED outsideCfg

NextCfg ==
    \E u \in Updaters :
        \/ \E t \in RuleListInputs, rp \in ProviderInputs : UpdateRulesCall(u, t, rp)
        \/ UpdateRulesLock(u)
        \/ UpdateRulesSetRules(u)
        \/ UpdateRulesSetProviders(u)
        \/ UpdateRulesUnlock(u)

SpecCfg == InitCfg /\ [][NextCfg]_vars

(***************************************************************************)
(* Two rule evaluations over one snapshot, the resolver answering each     *)
(***************************************************************************)
\* the records the DNS servers hold for the hosts that are not IP literals
DNSAnswers ==
    { [a |-> <<>>, aaaa |-> <<>>], [a |-> <<"ip1">>, aaaa |-> <<>>],
      [a |-> <<"ip1", "ip2">>, aaaa |-> <<>>], [a |-> <<>>, aaaa |-> <<"ip2">>] }

\* Resolver.resolveIP: the addresses one query can return (NoIP: an error).
\* An IP literal is returned as it is; otherwise the answer is picked at
\* random among the records, ips[rand.Intn(ipLength)].
resolveIP(host, ips) ==
    IF ParseIP(host) # NoIP THEN {ParseIP(host)}
    ELSE IF Len(ips) = 0 THEN {NoIP} ELSE {ips[i] : i \in 1..Len(ips)}

\* Resolver.ResolveIP: the TypeA answer, and the TypeAAAA answer when the
\* TypeA query failed.
ResolveIP(host, answers) ==
    (resolveIP(host, answers.a) \ {NoIP})
        \cup (IF NoIP \in resolveIP(host, answers.a)
              THEN resolveIP(host, answers.aaaa) ELSE {})

InitRuns ==
    /\ mode = "Rule"
    /\ rules \in RuleTables
    /\ proxies \in {FullProxies, PartialProxies}
    /\ hosts = DefaultHosts
    /\ dnsAnswers \in DNSAnswers
    /\ run1 = NoCall
    /\ run2 = NoCall
    /\ call = NoCall
    /\ IdleUDP
    /\ IdleTCP
    /\ IdleCfg
    /\ IdleTrie
    /\ IdleProvider
    /\ IdleWire
    /\ IdleFlow
    /\ IdleLate

FirstRun(md, ip) ==
    /\ run1 = NoCall
    /\ ip \in ResolveIP(md.host, dnsAnswers)
    /\ run1' = [made |-> TRUE, input |-> md, dns |-> ip,
                ret |-> resolveMetadata(mode, rules, proxies, hosts, md, ip)]
    /\ UNCHANGED <<mode, rules, proxies, hosts, dnsAnswers, run2, outsideRuns>>

SecondRun(ip) ==
    /\ run1 # NoCall
    /\ run2 = NoCall
    /\ ip \in ResolveIP(run1.input.host, dnsAnswers)
    /\ run2' = [made |-> TRUE, input |-> run1.input, dns |-> ip,
                ret |-> resolveMetadata(mode, rules, proxies, hosts, run1.input, ip)]
    /\ UNCHANGED <<mode, rules, proxies, hosts, dnsAnswers, run1, outsideRuns>>

NextRuns ==
    \/ \E md \in Metadatas, ip \in IPs \cup {NoIP} : FirstRun(md, ip)
    \/ \E ip \in IPs \cup {NoIP} : SecondRun(ip)

SpecRuns == InitRuns /\ [][NextRuns]_vars

(***************************************************************************)
(* The IP-CIDR trie (component/trie)                                       *)
(***************************************************************************)
MaxInserts == 2

ErrInvalidIpFormat == "invalid ip format"
ErrInvalidIpCidrFormat == "invalid ip cidr format"

big == 16777215

\* the value of a decimal digit character, -1 for any other character
digit(c) ==
    IF \E d \in 1..10 : SubSeq("0123456789", d, d) = c
    THEN (CHOOSE d \in 1..10 : SubSeq("0123456789", d, d) = c) - 1
    ELSE -1

\* dtoi(s), its loop standing at index i with value n
RECURSIVE dtoi(_, _, _)
dtoi(s, i, n) ==
    IF i < Len(s) /\ digit(SubSeq(s, i + 1, i + 1)) >= 0
    THEN LET n1 == n * 10 + digit(SubSeq(s, i + 1, i + 1))
         IN IF n1 >= big THEN [n |-> big, i |-> i, ok |-> FALSE]
            ELSE dtoi(s, i + 1, n1)
    ELSE IF i = 0 THEN [n |-> 0, i |-> 0, ok |-> FALSE]
         ELSE [n |-> n, i |-> i, ok |-> TRUE]

\* validAndObtainIp(ip), its loop standing at octet i with p[0..i-1] filled;
\* <<>> is the nil slice.  What follows the fourth octet is not looked at.
RECURSIVE validAndObtainIp(_, _, _)
validAndObtainIp(ip, i, p) ==
    IF i >= 4 THEN p
    ELSE IF Len(ip) = 0 THEN <<>>
    ELSE IF i > 0 /\ SubSeq(ip, 1, 1) # "." THEN <<>>
    ELSE LET rest == IF i > 0 THEN SubSeq(ip, 2, Len(ip)) ELSE ip
             r == dtoi(rest, 0, 0)
         IN IF ~r.ok \/ r.n > 255 THEN <<>>
            ELSE validAndObtainIp(SubSeq(rest, r.i + 1, Len(rest)), i + 1, Append(p, r.n))

\* strings.Split(s, sep) for a one-character separator
RECURSIVE Split(_, _)
Split(s, sep) ==
    IF \E i \in 1..Len(s) : SubSeq(s, i, i) = sep
    THEN LET i == CHOOSE k \in 1..Len(s) :
                    /\ SubSeq(s, k, k) = sep
                    /\ \A j \in 1..(k - 1) : SubSeq(s, j, j) # sep
         IN <<SubSeq(s, 1, i - 1)>> \o Split(SubSeq(s, i + 1, Len(s)), sep)
    ELSE <<s>>

\* strconv.Atoi: an optional sign, then decimal digits to the end
Atoi(s) ==
    LET signed == Len(s) > 0 /\ SubSeq(s, 1, 1) \in {"+", "-"}
        body == IF signed THEN SubSeq(s, 2, Len(s)) ELSE s
        r == dtoi(body, 0, 0)
    IN IF r.ok /\ r.i = Len(body)
       THEN [n |-> IF signed /\ SubSeq(s, 1, 1) = "-" THEN 0 - r.n ELSE r.n, ok |-> TRUE]
       ELSE [n |-> 0, ok |-> FALSE]

\* splitSubIpCidr: the byte-aligned prefixes to insert, their length in bits
splitSubIpCidr(ipCidr) ==
    LET p == Split(ipCidr, "/")
        uint8Ip == validAndObtainIp(p[1], 0, <<>>)
        a == Atoi(p[2])
        cidr == a.n
        cidrIndex == cidr \div 8
        lastIndexCidrNum == cidr % 8
        index == IF cidrIndex > 3 THEN 3 ELSE cidrIndex
        subIpCidrNum == uint8Ip[cidrIndex + 1] % (2 ^ (8 - lastIndexCidrNum))
        endCidr == uint8Ip[cidrIndex + 1] - subIpCidrNum
    IN IF Len(p) # 2
       THEN [subIpCidr |-> <<>>, subCidr |-> 0, err |-> ErrInvalidIpCidrFormat]
       ELSE IF uint8Ip = <<>>
       THEN [subIpCidr |-> <<>>, subCidr |-> 0, err |-> ErrInvalidIpFormat]
       ELSE IF ~a.ok \/ cidr < 0 \/ cidr > 32
       THEN [subIpCidr |-> <<>>, subCidr |-> 0, err |-> ErrInvalidIpCidrFormat]
       ELSE IF cidr = 0
       THEN [subIpCidr |-> << <<0, 0, 0, 0>> >>, subCidr |-> 0, err |-> NoError]
       ELSE IF lastIndexCidrNum = 0
       THEN [subIpCidr |-> << [j \in 1..4 |-> IF j <= index + 1 THEN uint8Ip[j] ELSE 0] >>,
             subCidr |-> cidrIndex * 8, err |-> NoError]
       ELSE [subIpCidr |->
                [i \in 1..subIpCidrNum |->
                    [j \in 1..4 |->
                        IF j <= cidrIndex THEN uint8Ip[j]
                        ELSE IF j = cidrIndex + 1 THEN (endCidr + (i - 1)) % 256
                        ELSE 0]],
             subCidr |-> (cidrIndex + 1) * 8, err |-> NoError]

\* q lies strictly below node
Below(node, q) == Len(node) < Len(q) /\ SubSeq(q, 1, Len(node)) = node

hasChild(t, node, value) == node \notin t.Tag /\ Append(node, value) \in t.child

\* addChild: a fresh node, untagged and without children, takes the slot
addChild(t, node, value) ==
    LET c == Append(node, value)
    IN [Tag |-> {q \in t.Tag : q # c /\ ~Below(c, q)},
        child |-> {q \in t.child : ~Below(c, q)} \cup {c}]

cleanChildKeeping(t, node) == t

\* lines 188-192: every slot of the node is set to nil
cleanChild(t, node) ==
    [Tag |-> {q \in t.Tag : ~Below(node, q)}, child |-> {q \in t.child : ~Below(node, q)}]

addIpCidrFirstOctet(t, ip, cidrByteSize, node, i) ==
    cleanChild([t EXCEPT !.Tag = @ \cup {node}], node)

\* addIpCidr, its loop standing at index i on node
RECURSIVE addIpCidr(_, _, _, _, _)
addIpCidr(t, ip, cidrByteSize, node, i) ==
    IF i < cidrByteSize
    THEN IF node \in t.Tag THEN t
         ELSE LET t1 == IF hasChild(t, node, ip[i + 1]) THEN t
                        ELSE addChild(t, node, ip[i + 1])
              IN addIpCidr(t1, ip, cidrByteSize, Append(node, ip[i + 1]), i + 1)
    ELSE cleanChild([t EXCEPT !.Tag = @ \cup {node}], node)

\* the loop of IpCidrTrie.AddIpCidr over the prefixes from k on (comparing
\* the tries has each insertion evaluated before the next one starts)
RECURSIVE addAll(_, _, _, _)
addAll(t, subIpCidr, subCidr, k) ==
    IF k > Len(subIpCidr) THEN t
    ELSE LET t1 == addIpCidr(t, subIpCidr[k], subCidr \div 8, <<subIpCidr[k][1]>>, 1)
         IN IF t1 = t THEN addAll(t, subIpCidr, subCidr, k + 1)
            ELSE addAll(t1, subIpCidr, subCidr, k + 1)

\* IpCidrTrie.AddIpCidr: the trie it leaves and the error it returns
AddIpCidr(t, ipCidr) ==
    LET r == splitSubIpCidr(ipCidr)
    IN IF r.err # NoError THEN [trie |-> t, err |-> r.err]
       ELSE [trie |-> addAll(t, r.subIpCidr, r.subCidr, 1), err |-> NoError]

\* search from node, partValues[0..i-1] consumed; <<>> is the nil node
RECURSIVE search(_, _, _, _)
search(t, partValues, node, i) ==
    IF node \in t.Tag THEN node
    ELSE IF i >= Len(partValues) THEN <<>>
    ELSE IF ~hasChild(t, node, partValues[i + 1]) THEN <<>>
    ELSE search(t, partValues, Append(node, partValues[i + 1]), i + 1)

IsContain(t, ip) ==
    LET values == validAndObtainIp(ip, 0, <<>>)
    IN IF values = <<>> THEN FALSE
       ELSE search(t, values, <<values[1]>>, 1) # <<>>

\* the decimal text of a number
RECURSIVE Itoa(_)
Itoa(n) ==
    IF n < 10 THEN SubSeq("0123456789", n + 1, n + 1)
    ELSE Itoa(n \div 10) \o SubSeq("0123456789", (n % 10) + 1, (n % 10) + 1)

\* the dotted-quad text of an IPv4 address
DottedQuad(ip) == Itoa(ip[1]) \o "." \o Itoa(ip[2]) \o "." \o Itoa(ip[3]) \o "." \o Itoa(ip[4])

\* The arguments AddIpCidr is called with: well-formed CIDRs, with the
\* address and the prefix length they denote, and other texts.
TrieAddrs == {<<10, 2, 36, 0>>, <<66, 36, 10, 2>>}
TriePrefixLens == {0, 6, 8, 16, 18, 24, 26, 32}

IllFormedCidrs ==
    {"333.00.23.2/23", "22.3.34.2/222", "2.2.2.2", "1.2.3.4/-1", "300.1.1.1/99",
     "1.2.3.4/8/8", "1.2.3.4.5/8"}

TrieInputs ==
    {[text |-> DottedQuad(ip) \o "/" \o Itoa(n), wellFormed |-> TRUE, ip |-> ip, cidr |-> n] :
        ip \in TrieAddrs, n \in TriePrefixLens}
    \cup {[text |-> s, wellFormed |-> FALSE, ip |-> <<>>, cidr |-> 0] : s \in IllFormedCidrs}

InitTrie ==
    /\ mode = "Rule"
    /\ rules = <<>>
    /\ proxies = EmptyProxies
    /\ hosts = DefaultHosts
    /\ call = NoCall
    /\ IdleUDP
    /\ IdleTCP
    /\ IdleCfg
    /\ IdleRuns
    /\ IdleProvider
    /\ IdleWire
    /\ IdleFlow
    /\ IdleLate
    /\ trie = NewIpCidrTrie
    /\ inserted = {}
    /\ lastAdd = NoAdd

TrieAddIpCidr(in) ==
    /\ Cardinality(inserted) < MaxInserts
    /\ LET r == AddIpCidr(trie, in.text)
       IN /\ trie' = r.trie
          /\ lastAdd' = [input |-> in.text, err |-> r.err, before |-> trie]
    /\ inserted' = IF in.wellFormed THEN inserted \cup {[ip |-> in.ip, cidr |-> in.cidr]}
                   ELSE inserted
    /\ UNCHANGED outsideTrie

NextTrie == \E in \in TrieInputs : TrieAddIpCidr(in)

SpecTrie == InitTrie /\ [][NextTrie]_vars

(***************************************************************************)
(* The rule-set provider and its fetcher (rule/provider, adapter/provider) *)
(***************************************************************************)
Behaviors == {"Domain", "IPCIDR", "Classical"}
VehicleTypes == {"File", "HTTP"}

Yaml(payload) == [there |-> TRUE, yaml |-> TRUE, payload |-> payload]
NotYaml == [there |-> TRUE, yaml |-> FALSE, payload |-> <<>>]

\* the contents a provider of each behavior meets
Contents(behavior) ==
    CASE behavior = "IPCIDR" ->
            {Yaml(<<"10.2.36.0/24">>), Yaml(<<"10.2.36.0/18", "66.36.10.2/32">>),
             Yaml(<<"66.36.10.2/32", "IP-CIDR,10.2.36.0/24">>),
             Yaml(<<"2001:11::/32">>), NotYaml}
      [] behavior = "Domain" ->
            {Yaml(<<"a", "b">>), Yaml(<<"b">>), Yaml(<<"a", "DOMAIN,b">>), NotYaml}
      [] OTHER ->
            {Yaml(<<"DOMAIN,a", "IP-CIDR,10.2.36.0/24">>), Yaml(<<"DOMAIN,b">>),
             Yaml(<<"DOMAIN,a", "RULE-SET,x">>), Yaml(<<"DOMAIN,a", "b">>), NotYaml}

\* md5.Sum: equal bytes, equal sums; never the zero value
md5Sum(buf) == [sum |-> buf]

\* rulesParse: yaml.Unmarshal into RulePayload
rulesParse(buf) ==
    IF buf.yaml THEN [elm |-> buf.payload, err |-> NoError]
    ELSE [elm |-> <<>>, err |-> "yaml: cannot unmarshal"]

ruleParseUntyped(ruleRaw) == [ruleType |-> "", rule |-> ruleRaw, params |-> <<>>]

ruleParse(ruleRaw) ==
    LET item == Split(ruleRaw, ",")
    IN IF Len(item) = 1 THEN [ruleType |-> "", rule |-> item[1], params |-> <<>>]
       ELSE IF Len(item) = 2 THEN [ruleType |-> item[1], rule |-> item[2], params |-> <<>>]
       ELSE [ruleType |-> item[1], rule |-> item[2], params |-> SubSeq(item, 3, Len(item))]

\* DomainTrie.Insert: nil, or the error for a domain that is empty, ends
\* with a dot or has an empty label
DomainInsertErr(domain) ==
    IF domain = "" \/ \E k \in 1..Len(Split(domain, ".")) : Split(domain, ".")[k] = ""
    THEN "invalid domain" ELSE NoError

\* R.ParseRule: nil, or the error for a rule type it does not know
ParseRuleErr(ruleType) ==
    IF ruleType \in {"DOMAIN", "IP-CIDR"} THEN NoError ELSE "unsupported rule type"

\* the loop of handleIpCidrRules from entry k on
RECURSIVE handleIpCidrRules(_, _, _)
handleIpCidrRules(ipCidrRules, rulesRaw, k) ==
    IF k > Len(rulesRaw) THEN [rules |-> ipCidrRules, err |-> NoError]
    ELSE IF ruleParse(rulesRaw[k]).ruleType # ""
    THEN [rules |-> NilRules, err |-> "error format of ip-cidr"]
    ELSE LET added(r) == IF r.err # NoError THEN [rules |-> NilRules, err |-> r.err]
                         ELSE handleIpCidrRules(r.trie, rulesRaw, k + 1)
         IN added(AddIpCidr(ipCidrRules, ruleParse(rulesRaw[k]).rule))

\* the loop of handleDomainRules from entry k on
RECURSIVE handleDomainRules(_, _, _)
handleDomainRules(domainRules, rulesRaw, k) ==
    IF k > Len(rulesRaw) THEN [rules |-> [domains |-> domainRules], err |-> NoError]
    ELSE IF ruleParse(rulesRaw[k]).ruleType # ""
    THEN [rules |-> NilRules, err |-> "error format of domain"]
    ELSE IF DomainInsertErr(ruleParse(rulesRaw[k]).rule) # NoError
    THEN [rules |-> NilRules, err |-> DomainInsertErr(ruleParse(rulesRaw[k]).rule)]
    ELSE handleDomainRules(domainRules \cup {ruleParse(rulesRaw[k]).rule}, rulesRaw, k + 1)

\* the loop of handleClassicalRules from entry k on
RECURSIVE handleClassicalRules(_, _, _)
handleClassicalRules(classicalRules, rulesRaw, k) ==
    IF k > Len(rulesRaw) THEN [rules |-> [list |-> classicalRules], err |-> NoError]
    ELSE IF ruleParse(rulesRaw[k]).ruleType = "RULE-SET"
    THEN [rules |-> NilRules, err |-> "error rule type"]
    ELSE IF ParseRuleErr(ruleParse(rulesRaw[k]).ruleType) # NoError
    THEN [rules |-> NilRules, err |-> ParseRuleErr(ruleParse(rulesRaw[k]).ruleType)]
    ELSE handleClassicalRules(Append(classicalRules, ruleParse(rulesRaw[k])), rulesRaw, k + 1)

constructRules(behavior, rulesRaw) ==
    CASE behavior = "Domain" -> handleDomainRules({}, rulesRaw, 1)
      [] behavior = "IPCIDR" -> handleIpCidrRules(NewIpCidrTrie, rulesRaw, 1)
      [] OTHER -> handleClassicalRules(<<>>, rulesRaw, 1)

\* the onUpdate closure of NewRuleSetProvider
onUpdate(rp, elm) ==
    LET set(r) == IF r.err # NoError THEN [rp |-> [rp EXCEPT !.count = Len(elm)], err |-> r.err]
                  ELSE [rp |-> [rp EXCEPT !.count = Len(elm), !.rules = r.rules],
                        err |-> NoError]
    IN set(constructRules(rp.behavior, elm))

\* net.IP.String: a dotted quad for the four octets of an IPv4 address,
\* colon-separated groups for the eight groups of an IPv6 address
IPString(ip) ==
    IF Len(ip) = 4 THEN DottedQuad(ip)
    ELSE Itoa(ip[1]) \o ":" \o Itoa(ip[2]) \o ":" \o Itoa(ip[3]) \o ":" \o Itoa(ip[4]) \o ":"
         \o Itoa(ip[5]) \o ":" \o Itoa(ip[6]) \o ":" \o Itoa(ip[7]) \o ":" \o Itoa(ip[8])

\* ruleSetProvider.Search on a provider whose rules are set
Search(rp, md) ==
    CASE rp.behavior = "Domain" -> md.host \in rp.rules.domains
      [] rp.behavior = "IPCIDR" -> IsContain(rp.rules, IPString(md.dstIP))
      [] OTHER -> \E k \in 1..Len(rp.rules.list) :
                     \/ rp.rules.list[k].ruleType = "DOMAIN" /\ rp.rules.list[k].rule = md.host
                     \/ /\ rp.rules.list[k].ruleType = "IP-CIDR"
                        /\ IsContain(AddIpCidr(NewIpCidrTrie, rp.rules.list[k].rule).trie,
                                     IPString(md.dstIP))

\* Vehicle.Read: the file for a File vehicle, the URL's content for an HTTP
\* one; NoBytes when the read fails
vehicleRead(f, fs, readOk) ==
    IF ~readOk THEN NoBytes
    ELSE IF f.vehicleType = "File" THEN fs.disk ELSE fs.remote

NeedsPersistAlways(vehicleType, hasLocal) == TRUE

\* line 79
NeedsPersist(vehicleType, hasLocal) == vehicleType # "File" /\ ~hasLocal

\* what a fetcher call has done and returns, before it has done anything
Started(f, fs) ==
    [elm |-> <<>>, same |-> FALSE, err |-> NoError, hash |-> f.hash, disk |-> fs.disk,
     buf |-> NoBytes, fetched |-> NoBytes, written |-> NoBytes,
     fetches |-> 0, parses |-> 0, writes |-> 0]

\* lines 79-90 of fetcher.Initial, r.buf parsed into r.elm
persist(f, io, r, hasLocal) ==
    IF NeedsPersist(f.vehicleType, hasLocal)
    THEN IF io.writeOk
         THEN [r EXCEPT !.writes = 1, !.written = r.buf, !.disk = r.buf, !.hash = md5Sum(r.buf)]
         ELSE [r EXCEPT !.writes = 1, !.elm = <<>>, !.err = "write failed"]
    ELSE [r EXCEPT !.hash = md5Sum(r.buf)]

\* fetcher.Initial.  io tells which of the reads and writes succeed.
fetcherInitial(f, fs, io) ==
    LET hasLocal == fs.disk # NoBytes
        first == IF hasLocal THEN (IF io.localOk THEN fs.disk ELSE NoBytes)
                 ELSE vehicleRead(f, fs, io.readOk)
        r1 == [Started(f, fs) EXCEPT !.fetches = IF hasLocal THEN 0 ELSE 1,
                                     !.fetched = IF hasLocal THEN NoBytes ELSE first]
        second == vehicleRead(f, fs, io.readOk)
    IN IF first = NoBytes THEN [r1 EXCEPT !.err = "read failed"]
       ELSE IF rulesParse(first).err = NoError
       THEN persist(f, io, [r1 EXCEPT !.parses = 1, !.buf = first,
                                      !.elm = rulesParse(first).elm], hasLocal)
       ELSE IF ~hasLocal THEN [r1 EXCEPT !.parses = 1, !.err = rulesParse(first).err]
       ELSE IF second = NoBytes
       THEN [r1 EXCEPT !.parses = 1, !.fetches = 1, !.err = "read failed"]
       ELSE IF rulesParse(second).err # NoError
       THEN [r1 EXCEPT !.parses = 2, !.fetches = 1, !.fetched = second,
                       !.err = rulesParse(second).err]
       ELSE persist(f, io, [r1 EXCEPT !.parses = 2, !.fetches = 1, !.fetched = second,
                                      !.buf = second, !.elm = rulesParse(second).elm], FALSE)

SameHashNever(stored, hash) == FALSE

\* line 101
SameHash(stored, hash) == stored = hash

\* fetcher.Update
fetcherUpdate(f, fs, io) ==
    LET buf == vehicleRead(f, fs, io.readOk)
        r1 == [Started(f, fs) EXCEPT !.fetches = 1, !.fetched = buf]
    IN IF buf = NoBytes THEN [r1 EXCEPT !.err = "read failed"]
       ELSE IF SameHash(f.hash, md5Sum(buf)) THEN [r1 EXCEPT !.same = TRUE]
       ELSE IF rulesParse(buf).err # NoError
       THEN [r1 EXCEPT !.parses = 1, !.err = rulesParse(buf).err]
       ELSE IF f.vehicleType # "File"
       THEN IF io.writeOk
            THEN [r1 EXCEPT !.parses = 1, !.writes = 1, !.written = buf, !.disk = buf,
                            !.buf = buf, !.elm = rulesParse(buf).elm, !.hash = md5Sum(buf)]
            ELSE [r1 EXCEPT !.parses = 1, !.writes = 1, !.err = "write failed"]
       ELSE [r1 EXCEPT !.parses = 1, !.buf = buf, !.elm = rulesParse(buf).elm,
                       !.hash = md5Sum(buf)]

IOs == [localOk : BOOLEAN, readOk : BOOLEAN, writeOk : BOOLEAN]

InitProv ==
    /\ mode = "Rule"
    /\ rules = <<>>
    /\ proxies = EmptyProxies
    /\ hosts = DefaultHosts
    /\ call = NoCall
    /\ IdleUDP
    /\ IdleTCP
    /\ IdleCfg
    /\ IdleRuns
    /\ IdleTrie
    /\ IdleWire
    /\ IdleFlow
    /\ IdleLate
    /\ \E b \in Behaviors, vt \in VehicleTypes :
          /\ prov = NewRuleSetProvider(b, vt)
          /\ files \in [disk : Contents(b) \cup {NoBytes},
                        remote : IF vt = "File" THEN {NoBytes} ELSE Contents(b)]
    /\ stable = NoBytes
    /\ lastOp = NoOp

\* what the provider held before a call
Held(rp) == [hash |-> rp.hash, count |-> rp.count, rules |-> rp.rules]

\* what a call leaves in lastOp: r from the fetcher, err the call's error
Observed(op, io, r, err, called) ==
    [op |-> op, err |-> err, same |-> r.same, hadLocal |-> files.disk, localOk |-> io.localOk,
     fetched |-> r.fetched, written |-> r.written,
     fetches |-> r.fetches, parses |-> r.parses, writes |-> r.writes,
     callbacks |-> IF called THEN 1 ELSE 0,
     elm |-> r.elm, before |-> Held(prov), stableBefore |-> stable]

\* ruleSetProvider.Initial
ProviderInitial(io) ==
    /\ prov.phase = "new"
    /\ \E r \in {fetcherInitial(prov, files, io)} :
       \E u \in {IF r.err = NoError THEN onUpdate([prov EXCEPT !.hash = r.hash], r.elm)
                 ELSE [rp |-> [prov EXCEPT !.hash = r.hash], err |-> r.err]} :
          /\ prov' = [u.rp EXCEPT !.phase = IF u.err = NoError THEN "ready" ELSE "failed"]
          /\ files' = [files EXCEPT !.disk = r.disk]
          /\ stable' = IF u.err = NoError THEN r.buf ELSE NoBytes
          /\ lastOp' = Observed("Initial", io, r, u.err, r.err = NoError)
    /\ UNCHANGED outsideProv

\* ruleSetProvider.Update
ProviderUpdate(io) ==
    /\ prov.phase = "ready"
    /\ \E r \in {fetcherUpdate(prov, files, io)} :
       \E u \in {IF r.err = NoError /\ ~r.same
                 THEN onUpdate([prov EXCEPT !.hash = r.hash], r.elm)
                 ELSE [rp |-> [prov EXCEPT !.hash = r.hash], err |-> r.err]} :
          /\ prov' = u.rp
          /\ files' = [files EXCEPT !.disk = r.disk]
          /\ stable' = IF r.err = NoError /\ ~r.same /\ u.err = NoError THEN r.fetched
                       ELSE IF r.fetched \in {NoBytes, stable} THEN stable
                       ELSE NoBytes
          /\ lastOp' = Observed("Update", io, r, u.err, r.err = NoError /\ ~r.same)
    /\ UNCHANGED outsideProv

\* the content behind the vehicle changes: the file of a File vehicle is
\* edited, the URL of an HTTP vehicle serves something else
ContentChanges(c) ==
    /\ c \in Contents(prov.behavior)
    /\ files' = IF prov.vehicleType = "File" THEN [files EXCEPT !.disk = c]
                ELSE [files EXCEPT !.remote = c]
    /\ files' # files
    /\ lastOp' = NoOp
    /\ UNCHANGED <<prov, stable, outsideProv>>

NextProv ==
    \/ \E io \in IOs : ProviderInitial(io)
    \/ \E io \in IOs : ProviderUpdate(io)
    \/ \E b \in Behaviors : \E c \in Contents(b) : ContentChanges(c)

SpecProv == InitProv /\ [][NextProv]_vars

\* the engine, the trie and the provider at rest
IdleEarly ==
    /\ mode = "Rule"
    /\ rules = <<>>
    /\ proxies = EmptyProxies
    /\ hosts = DefaultHosts
    /\ call = NoCall
    /\ IdleUDP
    /\ IdleTCP
    /\ IdleCfg
    /\ IdleRuns
    /\ IdleTrie
    /\ IdleProvider
    /\ IdleFlow

IdleEngine == IdleEarly /\ IdleLate

(***************************************************************************)
(* The SOCKS4 handshake (transport/socks4).  Bytes are numbers 0..255 and  *)
(* texts are sequences of bytes.                                           *)
(***************************************************************************)
Version == 4
CmdConnect == 1
CmdBind == 2
RequestGranted == 90
RequestRejected == 91
RequestIdentdFailed == 92
RequestIdentdMismatched == 93

Dot == 46
Colon == 58
Digit0 == 48

IsDigits(t) == Len(t) > 0 /\ \A k \in 1..Len(t) : t[k] \in Digit0..(Digit0 + 9)

\* the number a text of decimal digits writes
RECURSIVE DecimalValue(_)
DecimalValue(t) ==
    IF Len(t) = 0 THEN 0
    ELSE 10 * DecimalValue(SubSeq(t, 1, Len(t) - 1)) + (t[Len(t)] - Digit0)

\* strconv.Itoa as bytes
RECURSIVE DecimalText(_)
DecimalText(n) ==
    IF n < 10 THEN <<Digit0 + n>> ELSE Append(DecimalText(n \div 10), Digit0 + (n % 10))

\* the position of the last byte b of t, 0 when there is none
LastIndex(t, b) ==
    IF \E k \in 1..Len(t) : t[k] = b
    THEN CHOOSE k \in 1..Len(t) : t[k] = b /\ \A j \in (k + 1)..Len(t) : t[j] # b
    ELSE 0

\* the texts between the bytes b of t
RECURSIVE Fields(_, _)
Fields(t, b) ==
    IF LastIndex(t, b) = 0 THEN <<t>>
    ELSE Append(Fields(SubSeq(t, 1, LastIndex(t, b) - 1), b),
                SubSeq(t, LastIndex(t, b) + 1, Len(t)))

\* net.JoinHostPort for a host without a colon
JoinHostPort(host, portText) == host \o <<Colon>> \o portText

\* net.SplitHostPort for an address without brackets
SplitHostPort(addr) ==
    IF LastIndex(addr, Colon) = 0
    THEN [host |-> <<>>, port |-> <<>>, err |-> "missing port in address"]
    ELSE IF LastIndex(SubSeq(addr, 1, LastIndex(addr, Colon) - 1), Colon) # 0
    THEN [host |-> <<>>, port |-> <<>>, err |-> "too many colons in address"]
    ELSE [host |-> SubSeq(addr, 1, LastIndex(addr, Colon) - 1),
          port |-> SubSeq(addr, LastIndex(addr, Colon) + 1, Len(addr)), err |-> NoError]

\* strconv.ParseUint(portStr, 10, 16)
ParseUint16(t) ==
    IF ~IsDigits(t) THEN [n |-> 0, err |-> "invalid syntax"]
    ELSE IF Len(t) > 5 \/ DecimalValue(t) > 65535 THEN [n |-> 65535, err |-> "value out of range"]
    ELSE [n |-> DecimalValue(t), err |-> NoError]

\* net.ParseIPv4(host).To4() for a dotted quad; <<>> (nil) for any other text
ParseIPv4(host) ==
    LET f == Fields(host, Dot)
    IN IF /\ Len(f) = 4
          /\ \A k \in 1..4 : /\ IsDigits(f[k])
                             /\ Len(f[k]) <= 3
                             /\ (Len(f[k]) > 1 => f[k][1] # Digit0)
                             /\ DecimalValue(f[k]) <= 255
       THEN [k \in 1..4 |-> DecimalValue(f[k])]
       ELSE <<>>

isReservedIPAnyZeroNet(ip) == ip[1] = 0 /\ ip[2] = 0 /\ ip[3] = 0

isReservedIP(ip) == ip # <<0, 0, 0, 0>> /\ ip[1] = 0 /\ ip[2] = 0 /\ ip[3] = 0

\* binary.BigEndian for a uint16
BigEndian16(n) == <<(n \div 256) % 256, n % 256>>
Uint16(b) == b[1] * 256 + b[2]

\* ClientHandshake up to its rw.Write: the request it writes, or its error
ClientRequest(addr, command, userID) ==
    LET hp == SplitHostPort(addr)
        port == ParseUint16(hp.port)
        ip == IF ParseIPv4(hp.host) = <<>> THEN <<0, 0, 0, 1>> ELSE ParseIPv4(hp.host)
    IN IF hp.err # NoError THEN [req |-> <<>>, err |-> hp.err]
       ELSE IF port.err # NoError THEN [req |-> <<>>, err |-> port.err]
       ELSE [req |-> <<Version, command>> \o BigEndian16(port.n) \o ip \o userID \o <<0>>
                     \o (IF isReservedIP(ip) THEN hp.host \o <<0>> ELSE <<>>),
             err |-> NoError]

\* readUntilNull from position pos of the stream: the bytes before the next
\* zero byte and the position after it, or the error of a stream that ends
readUntilNull(stream, pos) ==
    IF \E k \in pos..Len(stream) : stream[k] = 0
    THEN LET z == CHOOSE k \in pos..Len(stream) :
                     stream[k] = 0 /\ \A j \in pos..(k - 1) : stream[j] # 0
         IN [data |-> SubSeq(stream, pos, z - 1), next |-> z + 1, err |-> NoError]
    ELSE [data |-> <<>>, next |-> Len(stream) + 1, err |-> "EOF"]

NoAddr == [nil |-> TRUE]

\* ServerHandshake reading the stream; verified tells whether there is no
\* authenticator or it accepts the user-id
ServerHandshake(stream, verified) ==
    LET req == SubSeq(stream, 1, 8)
        dstIP == SubSeq(req, 5, 8)
        dstPort == SubSeq(req, 3, 4)
        uid == readUntilNull(stream, 9)
        target == readUntilNull(stream, uid.next)
        host == IF isReservedIP(dstIP) THEN target.data ELSE <<>>
        port == Uint16(dstPort)
        none == [addr |-> NoAddr, command |-> 0, err |-> NoError, userID |-> <<>>,
                 reply |-> <<>>]
    IN IF Len(stream) < 8 THEN [none EXCEPT !.err = "unexpected EOF"]
       ELSE IF req[1] # Version THEN [none EXCEPT !.err = "version code mismatched"]
       ELSE IF req[2] # CmdConnect
       THEN [none EXCEPT !.command = req[2], !.err = "command not supported"]
       ELSE IF uid.err # NoError THEN [none EXCEPT !.command = req[2], !.err = uid.err]
       ELSE IF isReservedIP(dstIP) /\ target.err # NoError
       THEN [none EXCEPT !.command = req[2], !.userID = uid.data, !.err = target.err]
       ELSE [addr |-> IF host # <<>> THEN [nil |-> FALSE, ip |-> <<>>, host |-> host, port |-> port]
                      ELSE [nil |-> FALSE, ip |-> dstIP, host |-> <<>>, port |-> port],
             command |-> req[2],
             userID |-> uid.data,
             err |-> IF verified THEN NoError
                     ELSE "request rejected because the client program and identd report different user-ids",
             reply |-> <<0, IF verified THEN RequestGranted ELSE RequestIdentdMismatched>>
                       \o dstPort \o dstIP]

\* ClientHandshake from its io.ReadFull on: the error for a reply
ClientReply(resp) ==
    IF Len(resp) < 8 THEN "unexpected EOF"
    ELSE IF resp[1] # 0 THEN "version code mismatched"
    ELSE CASE resp[2] = RequestGranted -> NoError
           [] resp[2] = RequestRejected -> "request rejected or failed"
           [] resp[2] = RequestIdentdFailed ->
                 "request rejected because SOCKS server cannot connect to identd on the client"
           [] resp[2] = RequestIdentdMismatched ->
                 "request rejected because the client program and identd report different user-ids"
           [] OTHER -> "request failed with unknown code"

\* destinations with the IPv4 address they write (<<>> for a host name):
\* 1.2.3.4, 0.0.0.5, 0.0.0.0, the names a and a.b, and the empty host
SocksDests ==
    {[text |-> <<49, 46, 50, 46, 51, 46, 52>>, ip |-> <<1, 2, 3, 4>>],
     [text |-> <<48, 46, 48, 46, 48, 46, 53>>, ip |-> <<0, 0, 0, 5>>],
     [text |-> <<48, 46, 48, 46, 48, 46, 48>>, ip |-> <<0, 0, 0, 0>>],
     [text |-> <<97>>, ip |-> <<>>],
     [text |-> <<97, 46, 98>>, ip |-> <<>>],
     [text |-> <<>>, ip |-> <<>>]}
SocksPorts == {0, 80, 256, 65535}
SocksUserIDs == {<<>>, <<117>>, <<117, 0, 118>>}
SocksCommands == {CmdConnect, CmdBind}

NoReply == [addr |-> NoAddr, command |-> 0, err |-> NoError, userID |-> <<>>, reply |-> <<>>]

InitSocks ==
    /\ IdleEngine
    /\ socks = [pc |-> "new"]
    /\ vconn = Unused
    /\ wsconn = Unused
    /\ lis = Unused

\* ClientHandshake(rw, addr, command, userID) up to its read of the reply
SocksClientWrites(dest, port, command, userID) ==
    /\ socks.pc = "new"
    /\ \E c \in {ClientRequest(JoinHostPort(dest.text, DecimalText(port)), command, userID)} :
          socks' = [pc |-> IF c.err = NoError THEN "requested" ELSE "done",
                    dest |-> dest, port |-> port, command |-> command, userID |-> userID,
                    stream |-> c.req, server |-> NoReply, clientErr |-> c.err]
    /\ UNCHANGED outsideSocks

\* ServerHandshake(rw, authenticator) on the bytes the client wrote
SocksServerHandshakes(verified) ==
    /\ socks.pc = "requested"
    /\ socks' = [socks EXCEPT !.pc = "replied",
                              !.server = ServerHandshake(socks.stream, verified)]
    /\ UNCHANGED outsideSocks

\* ClientHandshake from its read of the reply on
SocksClientReads ==
    /\ socks.pc = "replied"
    /\ socks' = [socks EXCEPT !.pc = "done", !.clientErr = ClientReply(socks.server.reply)]
    /\ UNCHANGED outsideSocks

NextSocks ==
    \/ \E dest \in SocksDests, port \in SocksPorts, command \in SocksCommands,
          userID \in SocksUserIDs : SocksClientWrites(dest, port, command, userID)
    \/ \E verified \in BOOLEAN : SocksServerHandshakes(verified)
    \/ SocksClientReads

SpecSocks == InitSocks /\ [][NextSocks]_vars

(***************************************************************************)
(* The VLESS connection (transport/vless)                                  *)
(***************************************************************************)
MaxVlessWrites == 2

VlessVersion == 0
CommandTCP == 1
CommandUDP == 2

\* the addon data of a request: line 40 writes length 0 and no data
addonData == <<>>

sendRequestCommandFirst(id, dst) ==
    <<VlessVersion, IF dst.UDP THEN CommandUDP ELSE CommandTCP>> \o id \o <<Len(addonData)>>
       \o addonData \o BigEndian16(dst.Port % 65536) \o <<dst.AddrType>> \o dst.Addr

\* the buffer sendRequest hands to Conn.Write
sendRequest(id, dst) ==
    <<VlessVersion>> \o id \o <<Len(addonData)>> \o addonData
       \o <<IF dst.UDP THEN CommandUDP ELSE CommandTCP>>
       \o BigEndian16(dst.Port % 65536) \o <<dst.AddrType>> \o dst.Addr

\* two UUIDs, as their 16 bytes
VlessIDs ==
    {[k \in 1..16 |-> k], [k \in 1..16 |-> 255 - k]}

\* destinations as vmess.DstAddr, each with the address type byte and the
\* address bytes its maker chose: 1.2.3.4 (type 1), the name "ab" (type 2:
\* a length byte, then the name), and the IPv6 address ::1 (type 3)
VlessDsts ==
    {[UDP |-> u, AddrType |-> a[1], Addr |-> a[2], Port |-> p] :
        u \in BOOLEAN, p \in {0, 443, 65535},
        a \in {<<1, <<1, 2, 3, 4>>>>, <<2, <<2, 97, 98>>>>,
               <<3, [k \in 1..16 |-> IF k = 16 THEN 1 ELSE 0]>>}}

\* what the stream's Write does with a buffer: takes all of it, or fails
\* after none or seventeen of its bytes
WriteOutcomes == {[ok |-> TRUE, n |-> 0], [ok |-> FALSE, n |-> 0], [ok |-> FALSE, n |-> 17]}

VlessPayloads == {<<7>>, <<0, 1>>}

InitVless ==
    /\ IdleEngine
    /\ socks = Unused
    /\ vconn = [pc |-> "new"]
    /\ wsconn = Unused
    /\ lis = Unused

\* newConn(conn, id, dst): the request is sent; a failed write returns nil
VlessNewConn(id, dst, w) ==
    /\ vconn.pc = "new"
    /\ vconn' = [pc |-> IF w.ok THEN "open" ELSE "failed",
                 id |-> id, dst |-> dst,
                 returned |-> w.ok,
                 err |-> IF w.ok THEN NoError ELSE "write failed",
                 wire |-> IF w.ok THEN <<[kind |-> "request", bytes |-> sendRequest(id, dst)]>>
                          ELSE <<[kind |-> "request",
                                  bytes |-> SubSeq(sendRequest(id, dst), 1, w.n)]>>,
                 received |-> FALSE, reads |-> 0]
    /\ UNCHANGED outsideVless

\* Conn.Write, the embedded net.Conn's: the payload goes to the stream
VlessWrite(b) ==
    /\ vconn.pc = "open"
    /\ Len(vconn.wire) <= MaxVlessWrites
    /\ vconn' = [vconn EXCEPT !.wire = Append(@, [kind |-> "payload", bytes |-> b])]
    /\ UNCHANGED outsideVless

\* Conn.Read: the first successful one consumes the response header.  ok
\* tells whether the response is there with version 0.
VlessRead(ok) ==
    /\ vconn.pc = "open"
    /\ vconn.reads < 2
    /\ vconn' = [vconn EXCEPT !.received = @ \/ ok, !.reads = @ + 1]
    /\ UNCHANGED outsideVless

NextVless ==
    \/ \E id \in VlessIDs, dst \in VlessDsts, w \in WriteOutcomes : VlessNewConn(id, dst, w)
    \/ \E b \in VlessPayloads : VlessWrite(b)
    \/ \E ok \in BOOLEAN : VlessRead(ok)

SpecVless == InitVless /\ [][NextVless]_vars

(***************************************************************************)
(* The early-data WebSocket connection (vmess websocket transport)         *)
(***************************************************************************)
MaxWsWrites == 2
MaxWsReads == 2

\* the alphabet of base64.RawURLEncoding
encodeURL == "ABCDEFGHIJKLMNOPQRSTUVWXYZabcdefghijklmnopqrstuvwxyz0123456789-_"
encodeStd == "ABCDEFGHIJKLMNOPQRSTUVWXYZabcdefghijklmnopqrstuvwxyz0123456789+/"

\* Encoding.EncodeToString without padding, over an alphabet
RECURSIVE Base64Raw(_, _)
Base64Raw(alphabet, b) ==
    LET c(i) == SubSeq(alphabet, i + 1, i + 1)
    IN IF Len(b) = 0 THEN ""
       ELSE IF Len(b) = 1 THEN c(b[1] \div 4) \o c((b[1] % 4) * 16)
       ELSE IF Len(b) = 2
       THEN c(b[1] \div 4) \o c((b[1] % 4) * 16 + b[2] \div 16) \o c((b[2] % 16) * 4)
       ELSE c(b[1] \div 4) \o c((b[1] % 4) * 16 + b[2] \div 16)
               \o c((b[2] % 16) * 4 + b[3] \div 64) \o c(b[3] % 64)
               \o Base64Raw(alphabet, SubSeq(b, 4, Len(b)))

RawStdEncodingEncodeToString(b) == Base64Raw(encodeStd, b)

\* base64.RawURLEncoding.EncodeToString
RawURLEncodingEncodeToString(b) == Base64Raw(encodeURL, b)

\* no early data: the nil slice of line 160, no Sec-WebSocket-Protocol header
NoEarlyData == [set |-> FALSE]

\* StreamWebsocketConn(conn, c, ed): the handshake request it sends
StreamWebsocketConn(ed) ==
    IF ed # NoEarlyData
    THEN [protocol |-> [set |-> TRUE, value |-> RawURLEncodingEncodeToString(ed.bytes)]]
    ELSE [protocol |-> NoEarlyData]

NoResult == [op |-> "none"]

\* StreamWebsocketEDConn: nothing dialled, not closed, the dialed channel
\* empty, realConn the open connection it was created over
StreamWebsocketEDConn(ed) ==
    [pc |-> "made", Ed |-> ed, Conn |-> "nil", realConn |-> "open",
     closed |-> FALSE, cancelled |-> FALSE,
     dialed |-> 0, handshakes |-> <<>>, frames |-> <<>>, dialFailed |-> FALSE,
     writes |-> 0, reads |-> 0, reader |-> "idle",
     lastWrite |-> NoResult, lastRead |-> NoResult]

\* the slices written: none, one, two, three and four bytes
WsBuffers == {<<>>, <<255>>, <<1, 2>>, <<251, 255, 190>>, <<0, 16, 131, 16>>}
WsEds == {2, 3}

InitWs ==
    /\ IdleEngine
    /\ socks = Unused
    /\ vconn = Unused
    /\ \E ed \in WsEds : wsconn = StreamWebsocketEDConn(ed)
    /\ lis = Unused

\* websocketEDConn.Close: closed, cancel, and Conn.Close when a websocket
\* conn exists, whose Close closes the connection it runs over
wsedcClose(c) ==
    [c EXCEPT !.closed = TRUE, !.cancelled = TRUE,
              !.realConn = IF c.Conn = "nil" THEN @ ELSE "closed"]

\* websocketEDConn.Write(b).  dialOk tells whether a handshake would
\* succeed, frameOk whether the websocket conn can send a frame.
WsWrite(b, dialOk, frameOk) ==
    /\ wsconn.pc = "made"
    /\ wsconn.writes < MaxWsWrites
    /\ \E ed \in {IF Len(b) > wsconn.Ed THEN NoEarlyData ELSE [set |-> TRUE, bytes |-> b]} :
       \E counted \in {[wsconn EXCEPT !.writes = @ + 1]} :
          wsconn' =
             IF wsconn.closed
             THEN [counted EXCEPT !.lastWrite = [op |-> "Write", b |-> b, n |-> 0,
                                                 err |-> "io: read/write on closed pipe",
                                                 handshakes |-> 0, frames |-> 0]]
             ELSE IF wsconn.Conn = "nil" /\ ~dialOk
             THEN [wsedcClose(counted) EXCEPT
                      !.handshakes = Append(@, StreamWebsocketConn(ed)),
                      !.dialFailed = TRUE,
                      !.realConn = "closed",
                      !.lastWrite = [op |-> "Write", b |-> b, n |-> 0,
                                     err |-> "failed to dial WebSocket",
                                     handshakes |-> 1, frames |-> 0]]
             ELSE IF wsconn.Conn = "nil" /\ ed # NoEarlyData
             THEN [counted EXCEPT
                      !.Conn = "ws", !.dialed = 1,
                      !.handshakes = Append(@, StreamWebsocketConn(ed)),
                      !.lastWrite = [op |-> "Write", b |-> b, n |-> Len(ed.bytes), err |-> NoError,
                                     handshakes |-> 1, frames |-> 0]]
             ELSE [counted EXCEPT
                      !.Conn = "ws",
                      !.dialed = IF wsconn.Conn = "nil" THEN 1 ELSE @,
                      !.handshakes = IF wsconn.Conn = "nil"
                                     THEN Append(@, StreamWebsocketConn(ed)) ELSE @,
                      !.frames = IF frameOk THEN Append(@, b) ELSE @,
                      !.lastWrite = [op |-> "Write", b |-> b,
                                     n |-> IF frameOk THEN Len(b) ELSE 0,
                                     err |-> IF frameOk THEN NoError ELSE "write failed",
                                     handshakes |-> IF wsconn.Conn = "nil" THEN 1 ELSE 0,
                                     frames |-> IF frameOk THEN 1 ELSE 0]]
    /\ UNCHANGED outsideWs

\* websocketEDConn.Read up to its select: it returns on a closed conn, reads
\* from a dialled one, and waits otherwise
WsRead ==
    /\ wsconn.pc = "made"
    /\ wsconn.reader = "idle"
    /\ wsconn.reads < MaxWsReads
    /\ wsconn' =
          IF wsconn.closed
          THEN [wsconn EXCEPT !.reads = @ + 1,
                              !.lastRead = [op |-> "Read", err |-> "io: read/write on closed pipe"]]
          ELSE IF wsconn.Conn = "nil" THEN [wsconn EXCEPT !.reads = @ + 1, !.reader = "select"]
          ELSE [wsconn EXCEPT !.reads = @ + 1, !.lastRead = [op |-> "Read", err |-> NoError]]
    /\ UNCHANGED outsideWs

\* the select of Read: the context is done, or the dialed channel delivers
WsReadSelect ==
    /\ wsconn.reader = "select"
    /\ \/ /\ wsconn.cancelled
          /\ wsconn' = [wsconn EXCEPT !.reader = "idle",
                                      !.lastRead = [op |-> "Read", err |-> "unexpected EOF"]]
       \/ /\ wsconn.dialed = 1
          /\ wsconn' = [wsconn EXCEPT !.reader = "idle", !.dialed = 0,
                                      !.lastRead = [op |-> "Read", err |-> NoError]]
    /\ UNCHANGED outsideWs

\* websocketEDConn.Close called by the owner
WsClose ==
    /\ wsconn.pc = "made"
    /\ ~wsconn.closed
    /\ wsconn' = wsedcClose(wsconn)
    /\ UNCHANGED outsideWs

NextWs ==
    \/ \E b \in WsBuffers, dialOk \in BOOLEAN, frameOk \in BOOLEAN : WsWrite(b, dialOk, frameOk)
    \/ WsRead
    \/ WsReadSelect
    \/ WsClose

SpecWs == InitWs /\ [][NextWs]_vars

\* a Read waiting in its select runs when one of its cases is ready
FairSpecWs == SpecWs /\ WF_vars(WsReadSelect)

(***************************************************************************)
(* Listen and ListenPacket with their retries (adapter/inbound)            *)
(***************************************************************************)
ListenAttempts == 5

\* the errors a bind can fail with
BindErrors == {"address already in use", "permission denied"}

keepFirstErr(lastErr, err) == IF lastErr = NoError THEN err ELSE lastErr

\* lastErr = err
setLastErr(lastErr, err) == err

InitListen ==
    /\ IdleEngine
    /\ socks = Unused
    /\ vconn = Unused
    /\ wsconn = Unused
    /\ lis = [pc |-> "new"]

\* Listen or ListenPacket is called: i := 0, lastErr := nil
ListenCall(fn) ==
    /\ lis.pc = "new"
    /\ lis' = [pc |-> "loop", fn |-> fn, i |-> 0, lastErr |-> NoError, attempts |-> <<>>,
               listener |-> FALSE, err |-> NoError]
    /\ UNCHANGED outsideListen

\* one turn of the loop: the bind succeeds and the call returns the
\* listener, or it fails with err, which is kept, and the call sleeps
ListenTry(ok, err) ==
    /\ lis.pc = "loop"
    /\ lis.i < ListenAttempts
    /\ lis' = IF ok
              THEN [lis EXCEPT !.pc = "returned", !.attempts = Append(@, NoError),
                               !.listener = TRUE, !.err = NoError]
              ELSE [lis EXCEPT !.i = @ + 1, !.attempts = Append(@, err),
                               !.lastErr = setLastErr(@, err)]
    /\ UNCHANGED outsideListen

\* the loop is over: return nil, lastErr
ListenGiveUp ==
    /\ lis.pc = "loop"
    /\ lis.i >= ListenAttempts
    /\ lis' = [lis EXCEPT !.pc = "returned", !.listener = FALSE, !.err = lis.lastErr]
    /\ UNCHANGED outsideListen

NextListen ==
    \/ \E fn \in {"Listen", "ListenPacket"} : ListenCall(fn)
    \/ \E ok \in BOOLEAN, err \in BindErrors : ListenTry(ok, err)
    \/ ListenGiveUp

SpecListen == InitListen /\ [][NextListen]_vars

(***************************************************************************)
(* Claims about rule resolution                                            *)
(***************************************************************************)
Min(S) == CHOOSE x \in S : \A y \in S : x <= y

\* The metadata as it stands when rule i of the table is evaluated, stated
\* from the matching algorithm's description rather than from the loop: the
\* hosts entry replaces the destination IP, and otherwise the resolver's
\* answer is present from the first rule on that asks for resolution.
MdAfterHosts ==
    LET ip == HostsSearch(hosts, call.input.host)
    IN IF ip # NoIP THEN [call.input EXCEPT !.dstIP = ip] ELSE call.input

LazyResolveApplies ==
    /\ HostsSearch(hosts, call.input.host) = NoIP
    /\ call.input.host # NoHost
    /\ call.input.dstIP = NoIP

MdAt(i) ==
    IF /\ LazyResolveApplies
       /\ call.dns # NoIP
       /\ \E j \in 1..i : RuleShouldResolveIP(rules[j])
    THEN [MdAfterHosts EXCEPT !.dstIP = call.dns]
    ELSE MdAfterHosts

\* C2 as stated: eligible = present, not of type Pass, UDP-capable for UDP.
EligibleAsStated(i) ==
    /\ RuleMatch(rules[i], MdAt(i))
    /\ rules[i].adapter \in DOMAIN proxies
    /\ AdapterType(proxies[rules[i].adapter]) # "Pass"
    /\ (call.input.network = "udp" => SupportUDP(proxies[rules[i].adapter]))

\* C2 as amended: the adapter's Unwrap for this metadata is not of type Pass either.
EligibleAmended(i) ==
    /\ EligibleAsStated(i)
    /\ LET member == Unwrap(proxies[rules[i].adapter], MdAt(i))
       IN member = NilProxy \/ AdapterType(member) # "Pass"

FirstMatchWins(E) ==
    (call.made /\ mode = "Rule") =>
        /\ call.ret.err = NoError
        /\ IF E = {}
           THEN call.ret.rule = 0 /\ call.ret.proxy = Lookup(proxies, "DIRECT")
           ELSE /\ call.ret.rule = Min(E)
                /\ call.ret.proxy = Lookup(proxies, rules[Min(E)].adapter)

\* C1: whenever resolveMetadata returns (adapter, rule) without error, either
\* rule is none and the adapter is the proxy-map entry named DIRECT or GLOBAL,
\* or the rule matches the metadata (as the call leaves it) and the adapter is
\* the proxy-map entry named rule.Adapter().
C1_ReturnedPairIsConsistent ==
    (call.made /\ call.ret.err = NoError) =>
        \/ /\ call.ret.rule = 0
           /\ call.ret.proxy \in {Lookup(proxies, "DIRECT"), Lookup(proxies, "GLOBAL")}
        \/ /\ call.ret.rule \in 1..Len(rules)
           /\ RuleMatch(rules[call.ret.rule], call.ret.md)
           /\ call.ret.proxy = Lookup(proxies, rules[call.ret.rule].adapter)

\* C1 witness: a call returned a rule that matched only after lazy resolution
\* had filled in the destination IP.
C1_Witness ==
    /\ call.made
    /\ call.ret.rule # 0
    /\ call.ret.md # call.input
    /\ ~RuleMatch(rules[call.ret.rule], call.input)

RECURSIVE ResolvesToPass(_, _, _)
ResolvesToPass(a, md, depth) ==
    IF a = NilProxy THEN FALSE
    ELSE IF AdapterType(a) = "Pass" THEN TRUE
    ELSE IF depth = 0 THEN FALSE
    ELSE ResolvesToPass(Unwrap(a, md), md, depth - 1)

\* C3: a rule whose adapter is missing from the proxy map, is of type Pass, or
\* unwraps through any depth of group adapters to a Pass adapter is never
\* returned by match.
C3_PassRuleNeverReturned ==
    (call.made /\ mode = "Rule" /\ call.ret.rule # 0) =>
        /\ rules[call.ret.rule].adapter \in DOMAIN proxies
        /\ ~ResolvesToPass(proxies[rules[call.ret.rule].adapter], call.ret.md,
                           Cardinality(AdapterObjects))

PktsOf(k) == {p \in Pkts : ukey[p] = k}

\* C5: for every source key, at most one task at a time is owner, i.e. at
\* most one resolution-plus-dial guarded by the key's lock token is in flight.
C5_AtMostOneOwner ==
    \A k \in Keys : Cardinality({p \in PktsOf(k) : upc[p] \in OwnerStates}) <= 1

\* C5 witness: an owner is dialing while another packet of the same key,
\* which found the lock token, is suspended on the owner's cond.
C5_Witness ==
    \E p, q \in Pkts :
        /\ p # q
        /\ ukey[p] = ukey[q]
        /\ upc[p] = "o_dial"
        /\ upc[q] = "w_blocked"
        /\ ucond[q] = p

\* C6: for a burst of packets of one key that starts with no NAT entry, with
\* no dial failing and no entry evicted, one ListenPacketContext dial is made
\* for the key and no installed entry is replaced by a later owner.
C6_ExactlyOneDial ==
    \A k \in Keys :
        (\A p \in PktsOf(k) : outcome[p] # "fail" /\ reader[p] # "ended") =>
            /\ Cardinality({p \in PktsOf(k) : outcome[p] = "ok"}) <= 1
            /\ k \notin replaced

\* C7: every task that got already-existed = true from GetOrCreateLock
\* eventually resumes and ends (forwarding or dropping its packet); none
\* stays blocked on the condition variable forever.
C7_WaitersResume ==
    \A p \in Pkts : (upc[p] \in WaiterStates) ~> (upc[p] = "done")

\* C8: when the owner's resolution or dial fails, the table holds neither a
\* NAT entry nor a lock token for the key once the owner has deleted its
\* token.
C8_FailedOwnerLeavesNothing ==
    [][\A p \in Pkts :
          (upc[p] = "o_delete" /\ upc'[p] = "o_broadcast" /\ outcome[p] # "ok") =>
              (nat'[ukey[p]] = NoConn /\ lockTok'[ukey[p]] = NoCond)]_vars

(***************************************************************************)
(* Claims about the TCP handler and the configuration updates              *)
(***************************************************************************)
\* C9: for every TCP context dequeued, the inbound connection is closed when
\* its handler has ended, on every exit path; no dial is attempted unless
\* validation, pre-handle and rule resolution all succeeded; and an outbound
\* connection that was dialed is closed as well.
C9_TCPHandlerReleases ==
    \A c \in Conns :
        /\ tcp[c].pc = "done" => (tcp[c].inbound = "closed" /\ tcp[c].remote # "open")
        /\ (tcp[c].dialed \/ tcp[c].remote # "none") =>
               tcp[c].passed = {"valid", "prehandle", "resolve"}

\* C9 witness: handlers have ended on an invalid metadata and after a relay,
\* the second with its dialed connection closed.
C9_Witness ==
    \E c, d \in Conns :
        /\ tcp[c].pc = "done" /\ tcp[c].passed = {} /\ tcp[c].inbound = "closed"
        /\ tcp[d].pc = "done" /\ tcp[d].dialed /\ tcp[d].remote = "closed"
        /\ tcp[d].inbound = "closed"

\* C10: after the concurrent UpdateRules calls have all returned, the pair
\* (rules, ruleProviders) the engine holds is the pair one of the calls
\* passed, never the rule list of one call with the provider map of another.
C10_UpdateRulesAtomic ==
    (\A u \in Updaters : upd[u].pc = "returned") =>
        \E u \in Updaters : rules = upd[u].newRules /\ ruleProviders = upd[u].rp

\* C10 witness: two calls passing different rule lists and different
\* provider maps have both returned.
C10_Witness ==
    /\ \A u \in Updaters : upd[u].pc = "returned"
    /\ \E u, v \in Updaters :
          upd[u].newRules # upd[v].newRules /\ upd[u].rp # upd[v].rp

(***************************************************************************)
(* Claims about repeated rule evaluation                                   *)
(***************************************************************************)
ReturnedPair(run) == <<run.ret.proxy, run.ret.rule>>

TrieProbes == [1..4 -> {0, 2, 9, 10, 36, 40, 66, 255}]

\* the number of bits of octet j that a prefix of n bits fixes
PrefixBits(n, j) ==
    IF n - 8 * (j - 1) <= 0 THEN 0 ELSE IF n - 8 * (j - 1) >= 8 THEN 8 ELSE n - 8 * (j - 1)

\* address ip lies inside the CIDR c
InsideCidr(ip, c) ==
    \A j \in 1..4 :
        ip[j] \div (2 ^ (8 - PrefixBits(c.cidr, j)))
            = c.ip[j] \div (2 ^ (8 - PrefixBits(c.cidr, j)))

\* C12: once a well-formed IPv4 CIDR has been inserted, and whatever is
\* inserted after it, IsContain answers true for every address inside it.
C12_InsertedCidrContainsItsAddresses ==
    \A c \in inserted : \A ip \in TrieProbes :
        InsideCidr(ip, c) => IsContain(trie, DottedQuad(ip))

\* C13: after a CIDR of prefix length 0 has been inserted, IsContain answers
\* true for every IPv4 address.
C13_PrefixZeroContainsEverything ==
    (\E c \in inserted : c.cidr = 0)
        => \A ip \in TrieProbes : IsContain(trie, DottedQuad(ip))

\* the trie was empty when a.b.c.d/32 was inserted by the latest call
OnlySlash32(a) ==
    /\ lastAdd.input = DottedQuad(a) \o "/32"
    /\ lastAdd.before = NewIpCidrTrie

\* C14: after a.b.c.d/32 has been inserted into an empty trie, IsContain
\* answers true for a.b.c.d and false for every other IPv4 address.
C14_Slash32ContainsOnlyItself ==
    \A a \in TrieAddrs :
        OnlySlash32(a) => \A ip \in TrieProbes : IsContain(trie, DottedQuad(ip)) <=> ip = a

C14_Witness ==
    /\ OnlySlash32(<<10, 2, 36, 0>>)
    /\ lastAdd.err = NoError
    /\ IsContain(trie, "10.2.36.0")
    /\ ~IsContain(trie, "10.2.36.2")
    /\ ~IsContain(trie, "10.2.40.0")

\* a dotted quad: four groups of decimal digits, each at most 255, and
\* nothing else
IsDottedQuadText(s) ==
    LET parts == Split(s, ".")
    IN /\ Len(parts) = 4
       /\ \A k \in 1..4 :
            /\ Len(parts[k]) > 0
            /\ \A i \in 1..Len(parts[k]) : digit(SubSeq(parts[k], i, i)) >= 0
            /\ Atoi(parts[k]).n <= 255

\* the errors the stated rules allow for the argument s; a text with no
\* separator and no dotted quad may get either error
StatedErrors(s) ==
    LET addr == Split(s, "/")[1]
        prefix == SubSeq(s, Len(addr) + 2, Len(s))
    IN IF Len(Split(s, "/")) = 1
       THEN IF IsDottedQuadText(s) THEN {ErrInvalidIpCidrFormat}
            ELSE {ErrInvalidIpFormat, ErrInvalidIpCidrFormat}
       ELSE IF ~IsDottedQuadText(addr) THEN {ErrInvalidIpFormat}
       ELSE IF ~Atoi(prefix).ok \/ Atoi(prefix).n < 0 \/ Atoi(prefix).n > 32
       THEN {ErrInvalidIpCidrFormat}
       ELSE {NoError}

\* C15: AddIpCidr returns ErrInvalidIpFormat for an address part that is no
\* dotted quad of octets up to 255, ErrInvalidIpCidrFormat for a missing
\* separator or a prefix length that is no integer in 0..32, the address
\* part being checked first; and a call that returns an error leaves the
\* trie as it was.
C15_ErrorsAsStated ==
    lastAdd # NoAdd =>
        /\ lastAdd.err \in StatedErrors(lastAdd.input)
        /\ lastAdd.err # NoError => trie = lastAdd.before

(***************************************************************************)
(* Claims about the rule-set provider and its fetcher                      *)
(***************************************************************************)
\* C16: one Initial reads the cached file when there is one and fetches
\* through the vehicle otherwise; it fetches and parses once more only
\* after the cached bytes failed to parse, gives up when fetched bytes fail
\* to parse, so it fetches at most once and parses at most twice; and it
\* writes to disk only bytes fetched through a vehicle that is not a File.
C16_InitialFetchesOnceParsesTwice ==
    lastOp.op = "Initial" =>
       /\ lastOp.fetches <= 1
       /\ lastOp.parses <= 2
       /\ lastOp.hadLocal = NoBytes => lastOp.fetches = 1 /\ lastOp.parses <= 1
       /\ (lastOp.hadLocal # NoBytes /\ lastOp.localOk /\ rulesParse(lastOp.hadLocal).err = NoError)
             => lastOp.fetches = 0 /\ lastOp.parses = 1
       /\ (lastOp.hadLocal # NoBytes /\ lastOp.localOk /\ rulesParse(lastOp.hadLocal).err # NoError)
             => lastOp.fetches = 1 /\ (lastOp.fetched # NoBytes => lastOp.parses = 2)
       /\ (lastOp.fetched # NoBytes /\ rulesParse(lastOp.fetched).err # NoError)
             => lastOp.err = rulesParse(lastOp.fetched).err /\ lastOp.writes = 0
       /\ lastOp.writes > 0 =>
             /\ prov.vehicleType # "File"
             /\ lastOp.writes = 1
             /\ lastOp.fetched # NoBytes
             /\ lastOp.written \in {NoBytes, lastOp.fetched}

\* an Initial that found unparseable cached bytes, fetched, parsed again
\* and persisted what it fetched
C16_Witness ==
    /\ lastOp.op = "Initial"
    /\ lastOp.err = NoError
    /\ lastOp.fetches = 1
    /\ lastOp.parses = 2
    /\ lastOp.written = lastOp.fetched
    /\ files.disk = lastOp.fetched

\* C17: an Update whose fetched bytes hash to the stored hash returns
\* same = true without a parse, a disk write, a hash replacement or a
\* callback; so an Update that fetches the bytes the last successful load
\* took in never invokes the callback.
C17_SameHashShortCircuits ==
    lastOp.op = "Update" =>
       /\ (lastOp.fetched # NoBytes /\ md5Sum(lastOp.fetched) = lastOp.before.hash) =>
             /\ lastOp.same
             /\ lastOp.err = NoError
             /\ lastOp.parses = 0
             /\ lastOp.writes = 0
             /\ lastOp.callbacks = 0
             /\ Held(prov) = lastOp.before
             /\ files.disk = lastOp.hadLocal
       /\ (lastOp.stableBefore # NoBytes /\ lastOp.fetched = lastOp.stableBefore) =>
             lastOp.callbacks = 0

\* an Update short-circuited on the bytes of the last successful load
C17_Witness ==
    /\ lastOp.op = "Update"
    /\ lastOp.same
    /\ lastOp.stableBefore # NoBytes
    /\ lastOp.fetched = lastOp.stableBefore
    /\ lastOp.before.rules # NilRules

\* C18: an Update that fails leaves the provider's rule container, rule
\* count and content hash as they were before the call.
C18_FailedUpdateKeepsData ==
    (lastOp.op = "Update" /\ lastOp.err # NoError) => Held(prov) = lastOp.before

\* the rule type an entry carries before its first comma, "" when none
TypePrefix(entry) ==
    IF Len(Split(entry, ",")) >= 2 THEN Split(entry, ",")[1] ELSE ""

\* C19: when the callback builds the container from a payload, a Domain or
\* IP-CIDR build fails if an entry carries a rule-type prefix, a Classical
\* build fails if an entry is of type RULE-SET or does not parse as a rule,
\* and a failed build leaves the provider's container as it was.
C19_ContainerAllOrNothing ==
    (lastOp.op \in {"Initial", "Update"} /\ lastOp.callbacks = 1) =>
       /\ (prov.behavior \in {"Domain", "IPCIDR"}
              /\ \E k \in 1..Len(lastOp.elm) : TypePrefix(lastOp.elm[k]) # "")
             => lastOp.err # NoError
       /\ (prov.behavior = "Classical"
              /\ \E k \in 1..Len(lastOp.elm) :
                    \/ TypePrefix(lastOp.elm[k]) = "RULE-SET"
                    \/ ParseRuleErr(TypePrefix(lastOp.elm[k])) # NoError)
             => lastOp.err # NoError
       /\ lastOp.err # NoError => prov.rules = lastOp.before.rules

\* an Update whose payload has a prefixed entry after a good first entry,
\* on a provider that already holds a container
C19_Witness ==
    /\ lastOp.op = "Update"
    /\ lastOp.callbacks = 1
    /\ lastOp.err # NoError
    /\ Len(lastOp.elm) = 2
    /\ TypePrefix(lastOp.elm[1]) = ""
    /\ TypePrefix(lastOp.elm[2]) # ""
    /\ prov.behavior \in {"Domain", "IPCIDR"}
    /\ prov.rules = lastOp.before.rules
    /\ prov.rules # NilRules

\* destinations put to an IP-CIDR provider: IPv4 ones, and one IPv6 one
ProviderProbes ==
    {<<10, 2, 36, 0>>, <<10, 2, 36, 9>>, <<10, 2, 40, 0>>, <<10, 2, 0, 0>>,
     <<66, 36, 10, 2>>, <<66, 36, 10, 9>>, <<9, 9, 9, 9>>,
     <<8193, 17, 0, 0, 0, 0, 0, 1>>}

\* the CIDR a payload entry writes
PayloadCidr(entry) == CHOOSE in \in TrieInputs : in.text = entry

\* C20: after a successful Initial of an IP-CIDR provider, Search answers
\* true exactly for the destinations inside one of the payload's CIDRs.
C20_SearchExactlyInsidePayload ==
    (prov.behavior = "IPCIDR" /\ lastOp.op = "Initial" /\ lastOp.err = NoError) =>
       \A ip \in ProviderProbes :
          Search(prov, [host |-> "", dstIP |-> ip])
             <=> /\ Len(ip) = 4
                 /\ \E k \in 1..Len(lastOp.elm) : InsideCidr(ip, PayloadCidr(lastOp.elm[k]))

(***************************************************************************)
(* Claims about the SOCKS4 handshake                                       *)
(***************************************************************************)
\* C21 as stated: whatever the command, destination, port and user-id, the
\* server decodes the client's request to the same command, destination
\* (the IP for an address, the host for a name), port and user-id.
C21_RoundTripAsStated ==
    socks.pc \in {"replied", "done"} =>
       /\ socks.server.command = socks.command
       /\ socks.server.userID = socks.userID
       /\ socks.server.addr # NoAddr
       /\ socks.server.addr.port = socks.port
       /\ IF socks.dest.ip # <<>>
          THEN socks.server.addr.ip = socks.dest.ip /\ socks.server.addr.host = <<>>
          ELSE socks.server.addr.host = socks.dest.text /\ socks.server.addr.ip = <<>>

\* the address 0.0.0.x with x # 0
IsSocks4AMarker(ip) == ip # <<>> /\ ip[1] = 0 /\ ip[2] = 0 /\ ip[3] = 0 /\ ip[4] # 0

\* C21 amended: for command CONNECT, a user-id without a zero byte and a
\* destination that is an IPv4 address or a non-empty host name, the server
\* decodes the same command, port and user-id, and the same destination:
\* the IP for an address outside 0.0.0.x (x # 0), the host for a name, and
\* the address's own text as host for an address 0.0.0.x (x # 0).
C21_RoundTripOfConnect ==
    (/\ socks.pc \in {"replied", "done"}
     /\ socks.command = CmdConnect
     /\ \A k \in 1..Len(socks.userID) : socks.userID[k] # 0
     /\ socks.dest.text # <<>>) =>
       /\ socks.server.command = socks.command
       /\ socks.server.userID = socks.userID
       /\ socks.server.addr # NoAddr
       /\ socks.server.addr.port = socks.port
       /\ IF socks.dest.ip # <<>> /\ ~IsSocks4AMarker(socks.dest.ip)
          THEN socks.server.addr.ip = socks.dest.ip /\ socks.server.addr.host = <<>>
          ELSE socks.server.addr.host = socks.dest.text /\ socks.server.addr.ip = <<>>

\* a CONNECT to the name a.b, port 65535, granted by the server
C21_Witness ==
    /\ socks.pc = "done"
    /\ socks.clientErr = NoError
    /\ socks.command = CmdConnect
    /\ socks.dest.text = <<97, 46, 98>>
    /\ socks.port = 65535
    /\ socks.userID = <<117>>
    /\ socks.server.addr # NoAddr
    /\ socks.server.addr.host = <<97, 46, 98>>

(***************************************************************************)
(* Claims about the VLESS connection                                       *)
(***************************************************************************)
\* the request header of the wire format
VlessHeader(id, addon, udp, port, addrType, addr) ==
    <<0>> \o id \o <<Len(addon)>> \o addon \o <<IF udp THEN 2 ELSE 1>>
       \o <<port \div 256, port % 256>> \o <<addrType>> \o addr

\* C22: a VLESS connection that was returned has written exactly one
\* request header, first on the stream and in one piece, equal to
\* [0] ++ UUID ++ [addon length] ++ addon ++ [1 for TCP, 2 for UDP]
\* ++ port (big-endian) ++ [address type] ++ address; when the write of the
\* header fails no connection is returned.
C22_OneHeaderFirst ==
    vconn.pc \in {"open", "failed"} =>
       /\ vconn.returned <=> vconn.err = NoError
       /\ vconn.pc = "failed" => ~vconn.returned
       /\ vconn.returned =>
             /\ Len(vconn.id) = 16
             /\ vconn.wire[1].kind = "request"
             /\ vconn.wire[1].bytes = VlessHeader(vconn.id, addonData, vconn.dst.UDP,
                                                  vconn.dst.Port, vconn.dst.AddrType,
                                                  vconn.dst.Addr)
             /\ \A k \in 2..Len(vconn.wire) : vconn.wire[k].kind = "payload"

\* a UDP connection to port 443 of a domain name with payload written
C22_Witness ==
    /\ vconn.pc = "open"
    /\ vconn.dst.UDP
    /\ vconn.dst.Port = 443
    /\ vconn.dst.AddrType = 2
    /\ Len(vconn.wire) = 3
    /\ vconn.wire[1].bytes[19] = 2

(***************************************************************************)
(* Claims about the early-data WebSocket connection                        *)
(***************************************************************************)
UrlSafeAlphabet == "ABCDEFGHIJKLMNOPQRSTUVWXYZabcdefghijklmnopqrstuvwxyz0123456789-_"

IsUrlSafeText(t) ==
    \A k \in 1..Len(t) : \E i \in 1..64 : SubSeq(t, k, k) = SubSeq(UrlSafeAlphabet, i, i)

UrlSafeValue(t, k) ==
    (CHOOSE i \in 1..64 : SubSeq(t, k, k) = SubSeq(UrlSafeAlphabet, i, i)) - 1

\* the bytes an unpadded base64-URL text of valid length stands for
RECURSIVE UrlSafeDecode(_)
UrlSafeDecode(t) ==
    IF Len(t) < 2 THEN <<>>
    ELSE IF Len(t) = 2 THEN <<UrlSafeValue(t, 1) * 4 + UrlSafeValue(t, 2) \div 16>>
    ELSE IF Len(t) = 3
    THEN <<UrlSafeValue(t, 1) * 4 + UrlSafeValue(t, 2) \div 16,
           (UrlSafeValue(t, 2) % 16) * 16 + UrlSafeValue(t, 3) \div 4>>
    ELSE <<UrlSafeValue(t, 1) * 4 + UrlSafeValue(t, 2) \div 16,
           (UrlSafeValue(t, 2) % 16) * 16 + UrlSafeValue(t, 3) \div 4,
           (UrlSafeValue(t, 3) % 4) * 64 + UrlSafeValue(t, 4)>>
         \o UrlSafeDecode(SubSeq(t, 5, Len(t)))

ClosedPipe == "io: read/write on closed pipe"

C24_FiveAttempts ==
    lis.pc \in {"loop", "returned"} =>
       /\ Len(lis.attempts) <= 5
       /\ \A k \in 1..(Len(lis.attempts) - 1) : lis.attempts[k] # NoError
       /\ lis.pc = "loop" => \A k \in 1..Len(lis.attempts) : lis.attempts[k] # NoError
       /\ lis.pc = "returned" =>
             /\ Len(lis.attempts) >= 1
             /\ lis.listener <=> lis.attempts[Len(lis.attempts)] = NoError
             /\ lis.listener => lis.err = NoError
             /\ ~lis.listener => Len(lis.attempts) = 5 /\ lis.err = lis.attempts[5]
                                    /\ lis.err # NoError

\* ListenPacket gave up after five failures, the last one differing from
\* the first
C24_Witness ==
    /\ lis.pc = "returned"
    /\ lis.fn = "ListenPacket"
    /\ ~lis.listener
    /\ Len(lis.attempts) = 5
    /\ lis.attempts[1] = "address already in use"
    /\ lis.err = "permission denied"

(***************************************************************************)
(* Claims about the lazy resolution of match                               *)
(***************************************************************************)
\* the rule a match call returns when the resolver gave no address: the
\* first rule that matches the metadata as the hosts trie left it and whose
\* adapter is eligible, 0 when there is none
FirstEligible(rs, px, md) ==
    LET ok == {k \in 1..Len(rs) : /\ RuleMatch(rs[k], md)
                                  /\ ~SkipAdapter(px, rs[k], md)
                                  /\ ~UDPUnsupported(Lookup(px, rs[k].adapter), md)}
    IN IF ok = {} THEN 0 ELSE CHOOSE k \in ok : \A j \in ok : k <= j

PreHandlesMapped(c) ==
    /\ tcp[c].pc = "prehandle"
    /\ tcp'[c].pc # "prehandle"
    /\ renv.mapping
    /\ tcp[c].md.host = NoHost
    /\ tcp[c].md.dstIP # NoIP
    /\ FindHostByIP(renv, tcp[c].md.dstIP) # NoHost

\* a pre-handle step of context c on metadata with an empty host whose
\* destination IP is a fake IP the enabled mapping holds no name for
PreHandlesUnmappedFake(c) ==
    /\ tcp[c].pc = "prehandle"
    /\ tcp'[c].pc # "prehandle"
    /\ renv.mapping
    /\ tcp[c].md.host = NoHost
    /\ tcp[c].md.dstIP # NoIP
    /\ FindHostByIP(renv, tcp[c].md.dstIP) = NoHost
    /\ IsFakeIP(renv, tcp[c].md.dstIP)

PreHandleFailsAndDrops(c) ==
    /\ tcp'[c].pc = "closing"
    /\ ~tcp'[c].dialed
    /\ tcp'[c].passed = {"valid"}

\* C26 as stated: after a pre-handle of metadata with an empty host whose
\* destination IP has a reverse mapping, the host is the mapped name, the
\* address type is domain and the destination IP is the address the hosts
\* file pins for the name, null when it pins none; a fake IP without a
\* mapping fails the pre-handle and the flow is dropped.
C26_MappedAsStated ==
    [][\A c \in Conns :
          /\ PreHandlesMapped(c) =>
                /\ tcp'[c].pc = "resolve"
                /\ tcp'[c].md.host = FindHostByIP(renv, tcp[c].md.dstIP)
                /\ tcp'[c].md.addrType = AtypDomainName
                /\ tcp'[c].md.dstIP = HostsSearch(hosts, tcp'[c].md.host)
          /\ PreHandlesUnmappedFake(c) => PreHandleFailsAndDrops(c)]_vars

\* C26 amended: the host is the mapped name and the address type is domain;
\* in fake-IP mode the destination IP is null whatever the hosts file holds;
\* otherwise it is the address the hosts file pins for the name, and stays
\* the address the flow arrived with when the hosts file pins none; a fake
\* IP without a mapping fails the pre-handle and the flow is dropped.
C26_MappedByMode ==
    [][\A c \in Conns :
          /\ PreHandlesMapped(c) =>
                /\ tcp'[c].pc = "resolve"
                /\ tcp'[c].md.host = FindHostByIP(renv, tcp[c].md.dstIP)
                /\ tcp'[c].md.addrType = AtypDomainName
                /\ renv.fakeIP => tcp'[c].md.dstIP = NoIP
                /\ (~renv.fakeIP /\ tcp'[c].md.host \in DOMAIN hosts) =>
                       tcp'[c].md.dstIP = hosts[tcp'[c].md.host]
                /\ (~renv.fakeIP /\ tcp'[c].md.host \notin DOMAIN hosts) =>
                       tcp'[c].md.dstIP = tcp[c].md.dstIP
          /\ PreHandlesUnmappedFake(c) => PreHandleFailsAndDrops(c)]_vars

\* C26 witness: in fake-IP mode one context has been pre-handled to a name
\* the hosts file pins and holds no destination IP, and another, whose fake
\* IP has no mapping, has been dropped after validation.
C26_Witness ==
    /\ renv.mapping /\ renv.fakeIP
    /\ \E c, d \in Conns :
          /\ tcp[c].pc = "resolve"
          /\ tcp[c].md.host = "b"
          /\ "b" \in DOMAIN hosts
          /\ tcp[c].md.addrType = AtypDomainName
          /\ tcp[c].md.dstIP = NoIP
          /\ tcp[d].pc = "done"
          /\ tcp[d].md.dstIP = "fake2"
          /\ tcp[d].passed = {"valid"}
          /\ ~tcp[d].dialed

(***************************************************************************)
(* The address handleUDPConn captures for the replies of a fake-IP flow    *)
(***************************************************************************)
\* the largest value of a signed 16-bit integer
MaxInt16 == 32767

\* strconv.ParseInt(s, 10, 16) with the error dropped: a text that is not a
\* number yields 0, a number out of the signed 16-bit range yields the
\* nearest value of the range
ParseIntBase10Bits16(t) ==
    IF ~IsDigits(t) THEN 0
    ELSE IF DecimalValue(t) > MaxInt16 THEN MaxInt16
    ELSE DecimalValue(t)

NilUDPAddr == [nil |-> TRUE]

\* Metadata.UDPAddr
UDPAddr(md) ==
    IF md.network # "udp" \/ md.dstIP = NoIP THEN NilUDPAddr
    ELSE [nil |-> FALSE, IP |-> md.dstIP, Port |-> ParseIntBase10Bits16(md.dstPort)]

\* resolver.IsExistFakeIP: the fake-IP pool holds the address
IsExistFakeIP(env, ip) == env.fakeIP /\ ip \in FakeIPs /\ ip \in DOMAIN env.reverse

\* the destination ports packets arrive with
AddrPorts == {0, 53, MaxInt16, MaxInt16 + 1, 65535}

\* the metadata an inbound builds for a packet: the port as decimal text
AddrInputs ==
    { [network |-> "udp", host |-> h[1], dstIP |-> h[2], addrType |-> h[3],
       dstPort |-> DecimalText(p)] :
         h \in {<<NoHost, "fake1", AtypIPv4>>, <<NoHost, "fake2", AtypIPv4>>,
                <<NoHost, "ip1", AtypIPv4>>, <<"a", NoIP, AtypDomainName>>},
         p \in AddrPorts }

InitAddr ==
    /\ mode = "Rule"
    /\ rules = <<[kind |-> "IPCIDR", payload |-> "ip1", adapter |-> "PROXY",
                  noResolve |-> FALSE]>>
    /\ proxies = FullProxies
    /\ hosts = DefaultHosts
    /\ call = NoCall
    /\ IdleUDP
    /\ IdleCfg
    /\ tcp = [c \in Conns |-> NoConnState]
    /\ crashed = FALSE
    /\ renv \in ResolverEnvs
    /\ IdleRuns /\ IdleTrie /\ IdleProvider /\ IdleWire /\ IdleLate
    /\ reload = Unused
    /\ flow = Unused
    /\ \E md \in AddrInputs :
          pkt = [pc |-> "validate", md |-> md, arrived |-> md, fAddr |-> NilUDPAddr]

\* lines 211-214
AddrValidate ==
    /\ pkt.pc = "validate"
    /\ pkt' = [pkt EXCEPT !.pc = IF Valid(pkt.md) THEN "capture" ELSE "done"]
    /\ UNCHANGED outsideAddr

\* lines 216-220
AddrCapture ==
    /\ pkt.pc = "capture"
    /\ pkt' = [pkt EXCEPT !.pc = "prehandle",
                          !.fAddr = IF IsExistFakeIP(renv, pkt.md.dstIP)
                                    THEN UDPAddr(pkt.md) ELSE NilUDPAddr]
    /\ UNCHANGED outsideAddr

\* lines 222-225
AddrPreHandle ==
    /\ pkt.pc = "prehandle"
    /\ \E r \in {preHandleMetadata(renv, hosts, pkt.md)} :
          pkt' = [pkt EXCEPT !.pc = IF r.err THEN "done" ELSE "resolve", !.md = r.md]
    /\ UNCHANGED outsideAddr

\* line 260, by the owner of the key: resolveMetadata
AddrResolve ==
    /\ pkt.pc = "resolve"
    /\ \E dns \in IPs \cup {NoIP} :
          \E r \in {resolveMetadata(mode, rules, proxies, hosts, pkt.md, dns)} :
             pkt' = [pkt EXCEPT !.pc = IF r.err # NoError THEN "done" ELSE "relay",
                                !.md = r.md]
    /\ UNCHANGED outsideAddr

\* line 291: go handleUDPToLocal(packet.UDPPacket, pc, key, fAddr)
AddrRelay ==
    /\ pkt.pc = "relay"
    /\ pkt' = [pkt EXCEPT !.pc = "done"]
    /\ UNCHANGED outsideAddr

NextAddr ==
    \/ AddrValidate
    \/ AddrCapture
    \/ AddrPreHandle
    \/ AddrResolve
    \/ AddrRelay

SpecAddr == InitAddr /\ [][NextAddr]_vars

(***************************************************************************)
(* Claims about the captured address                                       *)
(***************************************************************************)
\* C27: for a UDP packet whose destination is an existing fake IP, the
\* address captured for the replies equals the destination IP and the
\* destination port the packet arrived with, whatever pre-handling and rule
\* matching then do to the metadata, for every destination port.
C27_CapturedAddrIsArrival ==
    (/\ pkt.pc \in {"prehandle", "resolve", "relay", "done"}
     /\ IsExistFakeIP(renv, pkt.arrived.dstIP))
        => /\ ~pkt.fAddr.nil
           /\ pkt.fAddr.IP = pkt.arrived.dstIP
           /\ DecimalText(pkt.fAddr.Port) = pkt.arrived.dstPort

\* the same for the address, and for the ports that fit in 15 bits
CapturedAddrBelow32768 ==
    (/\ pkt.pc \in {"prehandle", "resolve", "relay", "done"}
     /\ IsExistFakeIP(renv, pkt.arrived.dstIP))
        => /\ ~pkt.fAddr.nil
           /\ pkt.fAddr.IP = pkt.arrived.dstIP
           /\ DecimalValue(pkt.arrived.dstPort) <= MaxInt16
                 => DecimalText(pkt.fAddr.Port) = pkt.arrived.dstPort

(***************************************************************************)
(* A configuration reload while flows are being resolved                   *)
(***************************************************************************)
\* flows being resolved while the configuration is reloaded
MaxFlows == 2
Flows == 1..MaxFlows

\* the caller of UpdateProxies and UpdateRules
Reloader == 1

\* the configuration in place and the one the reload installs: the rule of A
\* names an adapter B's proxy map lacks
ConfigA ==
    [rules |-> <<[kind |-> "DOMAIN", payload |-> "a", adapter |-> "PROXY",
                  noResolve |-> FALSE]>>,
     proxies |-> FullProxies, rp |-> "rp1"]
ConfigB ==
    [rules |-> <<[kind |-> "DOMAIN", payload |-> "a", adapter |-> "TCPONLY",
                  noResolve |-> FALSE]>>,
     proxies |-> PartialProxies, rp |-> "rp2"]

FlowMetadata == [network |-> "tcp", host |-> "a", dstIP |-> NoIP]

NoResolved == [proxy |-> NilProxy, rule |-> 0]

NewFlow ==
    [pc |-> "start", modeRead |-> "none", rlocked |-> FALSE, reads |-> {},
     rulesRead |-> <<>>, proxiesRead |-> EmptyProxies, result |-> NoResolved]

InitReload ==
    /\ mode \in Modes
    /\ rules = ConfigA.rules
    /\ proxies = ConfigA.proxies
    /\ ruleProviders = ConfigA.rp
    /\ hosts = DefaultHosts
    /\ call = NoCall
    /\ IdleUDP
    /\ IdleTCP
    /\ upd = [u \in Updaters |-> [pc |-> "idle"]]
    /\ cfgWriter = NoCaller
    /\ IdleRuns /\ IdleTrie /\ IdleProvider /\ IdleWire /\ IdleLate
    /\ pkt = Unused
    /\ reload \in {[pc |-> "calling", calls |-> o] :
                      o \in {<<"UpdateProxies", "UpdateRules">>,
                             <<"UpdateRules", "UpdateProxies">>}}
    /\ flow = [f \in Flows |-> NewFlow]

\* sync.RWMutex: Lock returns while no writer and no reader holds the lock,
\* RLock while no writer holds it
NoReaders == \A f \in Flows : ~flow[f].rlocked

\* lines 98 and 121: configMux.Lock()
ReloadLock ==
    /\ reload.pc = "calling"
    /\ reload.calls # <<>>
    /\ LockFree
    /\ NoReaders
    /\ cfgWriter' = Reloader
    /\ reload' = [reload EXCEPT !.pc = "locked"]
    /\ UNCHANGED <<rules, proxies, ruleProviders, flow>>
    /\ UNCHANGED outsideReload

\* line 122: proxies = newProxies
ReloadSetProxies ==
    /\ reload.pc = "locked"
    /\ Head(reload.calls) = "UpdateProxies"
    /\ proxies' = ConfigB.proxies
    /\ reload' = [reload EXCEPT !.pc = "set"]
    /\ UNCHANGED <<rules, ruleProviders, cfgWriter, flow>>
    /\ UNCHANGED outsideReload

\* lines 99-100: rules = newRules; ruleProviders = rp
ReloadSetRules ==
    /\ reload.pc = "locked"
    /\ Head(reload.calls) = "UpdateRules"
    /\ rules' = ConfigB.rules
    /\ ruleProviders' = ConfigB.rp
    /\ reload' = [reload EXCEPT !.pc = "set"]
    /\ UNCHANGED <<proxies, cfgWriter, flow>>
    /\ UNCHANGED outsideReload

\* lines 101 and 124: configMux.Unlock(); the call returns and the next is made
ReloadUnlock ==
    /\ reload.pc = "set"
    /\ cfgWriter' = NoCaller
    /\ reload' = [pc |-> IF Len(reload.calls) = 1 THEN "returned" ELSE "calling",
                  calls |-> Tail(reload.calls)]
    /\ UNCHANGED <<rules, proxies, ruleProviders, flow>>
    /\ UNCHANGED outsideReload

\* a read of a shared variable: what was read, whether the reader held the
\* read lock, whether a writer held the write lock
ReadOf(what, f) == [what |-> what, locked |-> flow[f].rlocked, writing |-> cfgWriter # NoCaller]

\* line 197: switch mode
FlowReadMode(f) ==
    /\ flow[f].pc = "start"
    /\ flow' = [flow EXCEPT ![f].modeRead = mode,
                            ![f].pc = CASE mode = "Direct" -> "direct"
                                        [] mode = "Global" -> "global"
                                        [] OTHER -> "rlock"]
    /\ UNCHANGED <<rules, proxies, ruleProviders, cfgWriter, reload>>
    /\ UNCHANGED outsideReload

\* lines 199-202: proxy = proxies["DIRECT"] or proxies["GLOBAL"]
FlowReadByMode(f) ==
    /\ flow[f].pc \in {"direct", "global"}
    /\ \E r \in {resolveMetadata(flow[f].modeRead, rules, proxies, hosts, FlowMetadata, NoIP)} :
          flow' = [flow EXCEPT ![f].pc = "done",
                               ![f].reads = @ \cup {ReadOf("proxies", f)},
                               ![f].proxiesRead = proxies,
                               ![f].result = [proxy |-> r.proxy, rule |-> r.rule]]
    /\ UNCHANGED <<rules, proxies, ruleProviders, cfgWriter, reload>>
    /\ UNCHANGED outsideReload

\* lines 351-352: configMux.RLock(), RUnlock deferred
FlowRLock(f) ==
    /\ flow[f].pc = "rlock"
    /\ LockFree
    /\ flow' = [flow EXCEPT ![f].pc = "range", ![f].rlocked = TRUE]
    /\ UNCHANGED <<rules, proxies, ruleProviders, cfgWriter, reload>>
    /\ UNCHANGED outsideReload

\* line 362: for _, rule := range rules
FlowRangeRules(f) ==
    /\ flow[f].pc = "range"
    /\ flow' = [flow EXCEPT ![f].pc = "evaluate",
                            ![f].reads = @ \cup {ReadOf("rules", f)},
                            ![f].rulesRead = rules]
    /\ UNCHANGED <<rules, proxies, ruleProviders, cfgWriter, reload>>
    /\ UNCHANGED outsideReload

\* lines 362-388: the rules ranged over are matched against the proxy map
FlowEvaluate(f) ==
    /\ flow[f].pc = "evaluate"
    /\ \E dns \in IPs \cup {NoIP} :
          \E r \in {match(flow[f].rulesRead, proxies, hosts, FlowMetadata, dns)} :
             flow' = [flow EXCEPT ![f].pc = "runlock",
                                  ![f].reads = @ \cup {ReadOf("proxies", f)},
                                  ![f].proxiesRead = proxies,
                                  ![f].result = [proxy |-> r.proxy, rule |-> r.rule]]
    /\ UNCHANGED <<rules, proxies, ruleProviders, cfgWriter, reload>>
    /\ UNCHANGED outsideReload

\* the deferred configMux.RUnlock()
FlowRUnlock(f) ==
    /\ flow[f].pc = "runlock"
    /\ flow' = [flow EXCEPT ![f].pc = "done", ![f].rlocked = FALSE]
    /\ UNCHANGED <<rules, proxies, ruleProviders, cfgWriter, reload>>
    /\ UNCHANGED outsideReload

NextReload ==
    \/ ReloadLock
    \/ ReloadSetProxies
    \/ ReloadSetRules
    \/ ReloadUnlock
    \/ \E f \in Flows :
          \/ FlowReadMode(f)
          \/ FlowReadByMode(f)
          \/ FlowRLock(f)
          \/ FlowRangeRules(f)
          \/ FlowEvaluate(f)
          \/ FlowRUnlock(f)

SpecReload == InitReload /\ [][NextReload]_vars

(***************************************************************************)
(* Claims about resolving during a reload                                  *)
(***************************************************************************)
\* C28: every read of the rule list or the proxy map made while resolving a
\* flow, in every mode, is made with the configuration read lock held, and
\* none is made while UpdateRules or UpdateProxies holds the write lock.
C28_ReadsUnderReadLock ==
    \A f \in Flows : \A e \in flow[f].reads : e.locked /\ ~e.writing

\* the same for the reads match makes, in Rule mode
RuleModeReadsUnderReadLock ==
    \A f \in Flows :
        flow[f].modeRead = "Rule" => \A e \in flow[f].reads : e.locked /\ ~e.writing

\* C29: every match call evaluates A's rule list against A's proxy map or
\* B's rule list against B's proxy map, never the rule list of one
\* configuration against the proxy map of the other.
C29_MatchSeesOneConfiguration ==
    \A f \in Flows :
        (flow[f].modeRead = "Rule" /\ flow[f].pc \in {"runlock", "done"}) =>
            \/ flow[f].rulesRead = ConfigA.rules /\ flow[f].proxiesRead = ConfigA.proxies
            \/ flow[f].rulesRead = ConfigB.rules /\ flow[f].proxiesRead = ConfigB.proxies

\* each match call does see one whole rule list and one whole proxy map
MatchSeesWholeMaps ==
    \A f \in Flows :
        (flow[f].modeRead = "Rule" /\ flow[f].pc \in {"runlock", "done"}) =>
            /\ flow[f].rulesRead \in {ConfigA.rules, ConfigB.rules}
            /\ flow[f].proxiesRead \in {ConfigA.proxies, ConfigB.proxies}

(***************************************************************************)
(* Claims about the adapter resolveMetadata returns                        *)
(***************************************************************************)
\* C30: in every reachable state, flows handled before the first
\* UpdateProxies call included, a flow whose resolution returned no error
\* holds an adapter that is not nil when it dials, and no flow ends the
\* process.
C30_ResolvedAdapterNeverNil ==
    /\ ~crashed
    /\ \A c \in Conns :
          (tcp[c].pc = "dial" /\ "resolve" \in tcp[c].passed) => tcp[c].proxy # NilProxy

(***************************************************************************)
(* The UDP workers and a burst of packets from distinct sources            *)
(***************************************************************************)
\* packets of the burst, each from its own source key, none with a NAT entry
MaxBurst == 5
Burst == 1..MaxBurst

InitWorkers ==
    /\ IdleEarly
    /\ IdleWire
    /\ wk = [p \in Burst |-> "queued"]
    /\ pull = Unused
    /\ dial = Unused
    /\ vpc = Unused
    /\ ipx = Unused

\* the processUDP workers inside handleUDPConn
BusyWorkers == {p \in Burst : wk[p] = "inline"}

\* lines 138-143: a worker that is not inside handleUDPConn takes a packet
BurstDequeue(p) ==
    /\ wk[p] = "queued"
    /\ Cardinality(BusyWorkers) < NumUDPWorkers
    /\ wk' = [wk EXCEPT ![p] = "inline"]
    /\ UNCHANGED outsideWorkers

\* lines 209-253: handle() finds no NAT entry, GetOrCreateLock creates the
\* lock of the key, the go statement starts the owner's task and
\* handleUDPConn returns to the worker's loop
BurstSpawn(p) ==
    /\ wk[p] = "inline"
    /\ wk' = [wk EXCEPT ![p] = "spawned"]
    /\ UNCHANGED outsideWorkers

\* line 260, in the owner's task: resolveMetadata is called
BurstResolveCall(p) ==
    /\ wk[p] = "spawned"
    /\ wk' = [wk EXCEPT ![p] = "resolving"]
    /\ UNCHANGED outsideWorkers

\* resolveMetadata returns
BurstResolveReturn(p) ==
    /\ wk[p] = "resolving"
    /\ wk' = [wk EXCEPT ![p] = "resolved"]
    /\ UNCHANGED outsideWorkers

\* lines 266-295: the dial, the NAT entry, handle() and the deferred calls
BurstFinish(p) ==
    /\ wk[p] = "resolved"
    /\ wk' = [wk EXCEPT ![p] = "done"]
    /\ UNCHANGED outsideWorkers

NextWorkers ==
    \E p \in Burst :
        \/ BurstDequeue(p)
        \/ BurstSpawn(p)
        \/ BurstResolveCall(p)
        \/ BurstResolveReturn(p)
        \/ BurstFinish(p)

SpecWorkers == InitWorkers /\ [][NextWorkers]_vars

(***************************************************************************)
(* Claims about the UDP workers                                            *)
(***************************************************************************)
\* C31: at every instant the number of resolveMetadata calls in progress for
\* UDP packets is at most the number of UDP workers, however many source
\* keys have packets pending.
C31_EvaluationsBoundedByWorkers ==
    Cardinality({p \in Burst : wk[p] = "resolving"}) <= NumUDPWorkers

\* the handlers running inline in the workers are bounded by the workers
InlineHandlersBoundedByWorkers == Cardinality(BusyWorkers) <= NumUDPWorkers

(***************************************************************************)
(* Claims about the task draining the TCP queue                            *)
(***************************************************************************)
\* C32: under fair scheduling of the draining task, every context placed in
\* the TCP queue is eventually dequeued and given its own handler task,
\* wherever the handlers of the contexts dequeued before it stand.
C32_EveryContextDequeued ==
    \A c \in Conns : (tcp[c].pc = "queued") ~> (tcp[c].pc # "queued")

\* the same while the proxy map holds every adapter the flows are sent to
EveryContextDequeuedWithAdapters ==
    proxies = FullProxies =>
        \A c \in Conns : (tcp[c].pc = "queued") ~> (tcp[c].pc # "queued")

(***************************************************************************)
(* Claims about terminal nodes of the IP-CIDR trie                         *)
(***************************************************************************)
\* the nodes of a trie, tagged or not
TrieNodes(t) == t.Tag \cup t.child

\* C33: after any sequence of AddIpCidr calls every node whose Tag is set
\* has no children, and an insertion leaves every such node tagged and
\* without descendants, unless it tags a node above it, which prunes it.
C33_TerminalNodesAreLeaves ==
    /\ [](\A n \in trie.Tag : \A q \in TrieNodes(trie) : ~Below(n, q))
    /\ [][\A n \in trie.Tag :
             \/ n \in trie'.Tag /\ \A q \in TrieNodes(trie') : ~Below(n, q)
             \/ \E a \in trie'.Tag : Below(a, n) /\ n \notin TrieNodes(trie')]_vars

\* C33 witness: 10.0.0.0/8 was inserted, then the longer 10.2.0.0/16 under
\* it, and the node of 10 is still the only node, tagged.
C33_Witness ==
    /\ lastAdd.input = "10.2.36.0/16"
    /\ lastAdd.err = NoError
    /\ lastAdd.before.Tag = {<<10>>}
    /\ trie.Tag = {<<10>>}
    /\ trie.child = {}

(***************************************************************************)
(* The pull loop of a fetcher (adapter/provider and rule/provider)         *)
(***************************************************************************)
\* ticks the ticker fires
MaxTicks == 3
\* calls of Destroy
MaxDestroys == 2

\* the fetcher of the rule providers, whose onUpdate returns an error, and
\* the fetcher of the proxy providers, whose onUpdate returns nothing
FetcherKinds == {"rule", "proxy"}

\* newFetcher: a ticker when the interval is not 0, done with room for one
\* signal, no pull loop
InitPull ==
    /\ IdleEarly
    /\ IdleWire
    /\ wk = Unused
    /\ dial = Unused
    /\ vpc = Unused
    /\ ipx = Unused
    /\ \E k \in FetcherKinds, t \in BOOLEAN :
          pull = [kind |-> k, ticker |-> t, initial |-> "none", loop |-> "none",
                  tickC |-> 0, done |-> 0, tickerStopped |-> FALSE, ticks |-> 0,
                  updates |-> 0, destroys |-> 0, errors |-> 0]

LoopStartedWhatever(ok, ticker) == IF ticker THEN "select" ELSE "none"

\* Initial: every error returns before line 86; `if f.ticker != nil { go f.pullLoop() }`
LoopStarted(ok, ticker) == IF ok /\ ticker THEN "select" ELSE "none"

PullInitial(ok) ==
    /\ pull.initial = "none"
    /\ pull' = [pull EXCEPT !.initial = IF ok THEN "ok" ELSE "failed",
                            !.loop = LoopStarted(ok, pull.ticker)]
    /\ UNCHANGED outsidePull

\* time.Ticker: a tick is sent on C, which holds one tick; a tick that finds
\* C full is dropped; a stopped ticker sends none
PullTick ==
    /\ pull.ticker
    /\ ~pull.tickerStopped
    /\ pull.ticks < MaxTicks
    /\ pull' = [pull EXCEPT !.ticks = @ + 1, !.tickC = 1]
    /\ UNCHANGED outsidePull

\* case <-f.ticker.C: f.Update() is called
PullSelectTick ==
    /\ pull.loop = "select"
    /\ pull.tickC = 1
    /\ pull' = [pull EXCEPT !.tickC = 0, !.loop = "updating", !.updates = @ + 1]
    /\ UNCHANGED outsidePull

LoopAfterErrorReturning == "stopped"

\* `continue` after an Update error, and the end of the case after a callback
\* error: the loop is at its select again
LoopAfterError == "select"

\* Update returns an error, same = true, or the new elements
PullUpdateReturns(res) ==
    /\ pull.loop = "updating"
    /\ pull' = [pull EXCEPT
                  !.loop = CASE res = "error" -> LoopAfterError
                             [] res = "same" -> "select"
                             [] OTHER -> "callback",
                  !.errors = IF res = "error" THEN 1 ELSE @]
    /\ UNCHANGED outsidePull

\* f.onUpdate(elm); the rule fetcher's callback may return an error
PullCallback(err) ==
    /\ pull.loop = "callback"
    /\ err => pull.kind = "rule"
    /\ pull' = [pull EXCEPT !.loop = IF err THEN LoopAfterError ELSE "select",
                            !.errors = IF err THEN 1 ELSE @]
    /\ UNCHANGED outsidePull

\* case <-f.done: f.ticker.Stop(); return
PullSelectDone ==
    /\ pull.loop = "select"
    /\ pull.done = 1
    /\ pull' = [pull EXCEPT !.done = 0, !.tickerStopped = TRUE, !.loop = "stopped"]
    /\ UNCHANGED outsidePull

\* Destroy: with a ticker, f.done <- struct{}{}; the send waits while done
\* holds a signal
PullDestroy ==
    /\ pull.destroys < MaxDestroys
    /\ pull.ticker => pull.done = 0
    /\ pull' = [pull EXCEPT !.destroys = @ + 1,
                            !.done = IF pull.ticker THEN 1 ELSE @]
    /\ UNCHANGED outsidePull

NextPull ==
    \/ \E ok \in BOOLEAN : PullInitial(ok)
    \/ PullTick
    \/ PullSelectTick
    \/ \E res \in {"error", "same", "changed"} : PullUpdateReturns(res)
    \/ \E err \in BOOLEAN : PullCallback(err)
    \/ PullSelectDone
    \/ PullDestroy

SpecPull == InitPull /\ [][NextPull]_vars

\* Update and the callback return; the select of the loop proceeds when one
\* of its cases is ready
FairSpecPull ==
    /\ SpecPull
    /\ WF_vars(\E res \in {"error", "same", "changed"} : PullUpdateReturns(res))
    /\ WF_vars(\E err \in BOOLEAN : PullCallback(err))
    /\ WF_vars(PullSelectTick \/ PullSelectDone)

DialOptions ==
    {[adapter |-> "vless", network |-> n[1], ed |-> n[2], tls |-> t, xtls |-> x,
      cipher |-> "none"] :
        n \in {<<"ws", FALSE>>, <<"ws", TRUE>>, <<"tcp", FALSE>>}, t \in BOOLEAN, x \in BOOLEAN}
    \cup {[adapter |-> "ssr", network |-> "tcp", ed |-> FALSE, tls |-> FALSE, xtls |-> FALSE,
           cipher |-> c] :
            c \in {"stream", "aead"}}

\* the steps of StreamConn that can fail, in the order they are made
\* (Vless.StreamConn lines 54-136, ShadowSocksR.StreamConn lines 341-352);
\* with early data the websocket handshake is left to the first Write
StreamSteps(o) ==
    CASE o.adapter = "vless" /\ o.network = "ws" /\ o.ed -> {"client"}
      [] o.adapter = "vless" /\ o.network = "ws" -> {"websocket", "client"}
      [] o.adapter = "vless" /\ o.tls /\ o.xtls -> {"xtls", "client"}
      [] o.adapter = "vless" /\ o.tls -> {"tls", "client"}
      [] o.adapter = "vless" -> {"client"}
      [] o.cipher = "aead" -> {"type"}
      [] OTHER -> {"iv", "write"}

\* the outcomes of StreamConn: it fails at one of its steps or succeeds; an
\* AEAD cipher always fails (line 348)
StreamOutcomes(o) ==
    IF o.cipher = "aead" THEN StreamSteps(o) ELSE StreamSteps(o) \cup {NoError}

NoDeferred == [set |-> FALSE]

InitDial ==
    /\ IdleEarly
    /\ IdleWire
    /\ wk = Unused
    /\ pull = Unused
    /\ vpc = Unused
    /\ ipx = Unused
    /\ \E o \in DialOptions :
          dial = [pc |-> "new", option |-> o, conn |-> "none", err |-> NoError,
                  deferred |-> NoDeferred, returned |-> "none"]

\* the arguments of a deferred call are evaluated when the defer statement
\* runs: safeConnClose receives the err of that moment
DeferredCall(conn, err) == [set |-> TRUE, conn |-> conn, err |-> err]

\* safeConnClose(c, err): c.Close() when err is not nil
safeConnClose(d, conn) ==
    IF d.set /\ d.err # NoError /\ d.conn = "open" THEN "closed" ELSE conn

\* lines 140-144 and 357-363: dialer.DialContext; an error returns; the
\* ShadowsocksR adapter then defers safeConnClose(c, err)
DialConnect(res) ==
    /\ dial.pc = "new"
    /\ dial' = IF res # NoError
               THEN [dial EXCEPT !.pc = "returned", !.err = res, !.returned = "nil"]
               ELSE [dial EXCEPT !.pc = "stream", !.conn = "open",
                                 !.deferred = IF dial.option.adapter = "ssr"
                                              THEN DeferredCall("open", NoError)
                                              ELSE NoDeferred]
    /\ UNCHANGED outsideDial

\* lines 146 and 365: c, err = StreamConn(c, metadata)
DialStreamConn(res) ==
    /\ dial.pc = "stream"
    /\ res \in StreamOutcomes(dial.option)
    /\ dial' = [dial EXCEPT !.pc = "return", !.err = res]
    /\ UNCHANGED outsideDial

\* lines 147 and 366: return NewConn(c, adapter), err; the deferred call runs
DialReturn ==
    /\ dial.pc = "return"
    /\ dial' = [dial EXCEPT !.pc = "returned",
                            !.returned = "conn",
                            !.conn = safeConnClose(dial.deferred, dial.conn)]
    /\ UNCHANGED outsideDial

\* the caller of a DialContext that returned no error closes the connection
\* when the relay ends
DialCallerCloses ==
    /\ dial.pc = "returned"
    /\ dial.err = NoError
    /\ dial' = [dial EXCEPT !.pc = "released", !.conn = "closed"]
    /\ UNCHANGED outsideDial

NextDial ==
    \/ \E res \in {NoError, "refused", "timeout"} : DialConnect(res)
    \/ \E res \in {NoError, "websocket", "xtls", "tls", "client", "type", "iv", "write"} :
          DialStreamConn(res)
    \/ DialReturn
    \/ DialCallerCloses

SpecDial == InitDial /\ [][NextDial]_vars

(***************************************************************************)
(* Claims about DialContext                                                *)
(***************************************************************************)
\* C35: when DialContext of the VLESS or the ShadowsocksR adapter has
\* opened its connection and StreamConn then fails, the connection is closed
\* when DialContext has returned the error.
C35_FailedHandshakeClosesConn ==
    (dial.pc = "returned" /\ dial.err \in StreamSteps(dial.option)) => dial.conn = "closed"

\* a connect error leaves no connection, and a connection handed to the
\* caller is open
DialWithoutHandshakeFailure ==
    /\ (dial.pc = "returned" /\ dial.err \in {"refused", "timeout"}) => dial.conn = "none"
    /\ (dial.pc = "returned" /\ dial.err = NoError) => dial.conn = "open"

(***************************************************************************)
(* Conn.Read of a VLESS connection against the bytes the server sends      *)
(***************************************************************************)
\* Read calls made on the connection
MaxVlessReads == 3

\* what the server sends: a version byte, the addon length, the addon bytes,
\* then payload; cut tells how many bytes arrive before the stream ends
VlessResponses ==
    {[version |-> v, addon |-> a, payload |-> pl, cut |-> c] :
        v \in {VlessVersion, 1}, a \in {<<>>, <<55, 66>>},
        pl \in {<<7, 8, 9>>, <<0, 9>>}, c \in {1, 3, 5, 99}}

ResponseBytes(r) ==
    LET all == <<r.version, Len(r.addon)>> \o r.addon \o r.payload
    IN SubSeq(all, 1, IF r.cut < Len(all) THEN r.cut ELSE Len(all))

InitVlessRead ==
    /\ IdleEngine
    /\ socks = Unused
    /\ wsconn = Unused
    /\ lis = Unused
    /\ \E r \in VlessResponses :
          vconn = [pc |-> "reading", response |-> r, inbound |-> ResponseBytes(r), pos |-> 0,
                   received |-> FALSE, results |-> <<>>]

ErrVersion == "unexpected response version"
ErrEOF == "EOF"

\* recvResponse on the stream standing at pos: the error it returns and
\* where it leaves the stream.  io.ReadFull of the version byte, the version
\* test, io.ReadFull of the length byte, io.CopyN to Discard of that many
\* bytes with its result dropped
recvResponse(inbound, pos) ==
    IF pos + 1 > Len(inbound) THEN [err |-> ErrEOF, pos |-> pos]
    ELSE IF inbound[pos + 1] # VlessVersion THEN [err |-> ErrVersion, pos |-> pos + 1]
    ELSE IF pos + 2 > Len(inbound) THEN [err |-> ErrEOF, pos |-> pos + 1]
    ELSE LET length == inbound[pos + 2]
             after == pos + 2 + length
         IN [err |-> NoError, pos |-> IF after > Len(inbound) THEN Len(inbound) ELSE after]

\* net.Conn.Read into a buffer: at the end of the stream EOF, otherwise n
\* bytes, n between 1 and what the buffer and the stream hold
ConnRead(inbound, pos, n) ==
    IF pos >= Len(inbound) THEN [bytes |-> <<>>, err |-> ErrEOF, pos |-> pos]
    ELSE [bytes |-> SubSeq(inbound, pos + 1, pos + n), err |-> NoError, pos |-> pos + n]

\* Conn.Read(b), the stream delivering n bytes to the embedded Read
VlessConnRead(size, n) ==
    /\ vconn.pc = "reading"
    /\ Len(vconn.results) < MaxVlessReads
    /\ n \in 1..size
    /\ \E h \in {IF vconn.received THEN [err |-> NoError, pos |-> vconn.pos]
                 ELSE recvResponse(vconn.inbound, vconn.pos)} :
          IF h.err # NoError
          THEN vconn' = [vconn EXCEPT !.pos = h.pos,
                                      !.results = Append(@, [bytes |-> <<>>, err |-> h.err])]
          ELSE \E r \in {ConnRead(vconn.inbound, h.pos,
                                  IF h.pos + n > Len(vconn.inbound)
                                  THEN Len(vconn.inbound) - h.pos ELSE n)} :
                  vconn' = [vconn EXCEPT !.pos = r.pos,
                                         !.received = TRUE,
                                         !.results = Append(@, [bytes |-> r.bytes, err |-> r.err])]
    /\ UNCHANGED outsideVless

NextVlessRead == \E size \in {1, 4} : \E n \in 1..size : VlessConnRead(size, n)

SpecVlessRead == InitVlessRead /\ [][NextVlessRead]_vars

(***************************************************************************)
(* Claims about the VLESS response                                         *)
(***************************************************************************)
\* the bytes the Read calls up to the k-th returned, in order
RECURSIVE Delivered(_, _)
Delivered(results, k) ==
    IF k = 0 THEN <<>> ELSE Delivered(results, k - 1) \o results[k].bytes

IsPrefix(a, b) == Len(a) <= Len(b) /\ SubSeq(b, 1, Len(a)) = a

\* C36: the bytes Read returns are the payload that follows the response
\* header, in order, so no header or addon byte is delivered and the header
\* is consumed once; and after a Read that failed on the response version no
\* later Read on the connection returns any bytes.
C36_ResponseHeaderConsumedOnce ==
    /\ IsPrefix(Delivered(vconn.results, Len(vconn.results)), vconn.response.payload)
    /\ \A k \in 1..Len(vconn.results) :
          vconn.results[k].err = ErrVersion =>
             \A j \in (k + 1)..Len(vconn.results) : vconn.results[j].bytes = <<>>

\* the same for the responses whose version is 0
ResponseHeaderConsumedOnceVersion0 ==
    vconn.response.version = VlessVersion =>
        IsPrefix(Delivered(vconn.results, Len(vconn.results)), vconn.response.payload)

(***************************************************************************)
(* vlessPacketConn.ReadFrom against the frames the peer sends              *)
(***************************************************************************)
\* frames the peer sends, and ReadFrom calls made on the connection
MaxFrames == 2
MaxReadFroms == 3

FramePayloads == {<<9>>, <<0, 1>>, <<8, 0, 2>>}

FrameSeqs == UNION {[1..n -> FramePayloads] : n \in 1..MaxFrames}

\* the bytes writePacket sends for one payload
writePacket(b) == <<Len(b) \div 256, Len(b) % 256>> \o b

RECURSIVE FramesBytes(_, _)
FramesBytes(frames, k) ==
    IF k = 0 THEN <<>> ELSE FramesBytes(frames, k - 1) \o writePacket(frames[k])

BufferSizes == {1, 2, 4}

InitPacket ==
    /\ IdleEarly
    /\ IdleWire
    /\ wk = Unused
    /\ pull = Unused
    /\ dial = Unused
    /\ ipx = Unused
    /\ \E fs \in FrameSeqs :
          vpc = [frames |-> fs, inbound |-> FramesBytes(fs, Len(fs)), pos |-> 0,
                 remain |-> 0, results |-> <<>>]

Available == Len(vpc.inbound) - vpc.pos

\* what one ReadFrom call returned: n bytes of the stream after position from
ReadResult(size, from, n, err) == [size |-> size, from |-> from, n |-> n, err |-> err]

\* ReadFrom(b) while bytes of the current frame remain
ReadFromRemain(size, n) ==
    /\ vpc # Unused
    /\ Len(vpc.results) < MaxReadFroms
    /\ vpc.remain > 0
    /\ LET length == Min({vpc.remain, size})
       IN IF Available = 0
          THEN /\ n = 1
               /\ vpc' = [vpc EXCEPT !.results = Append(@, ReadResult(size, vpc.pos, 0, ErrEOF))]
          ELSE /\ n \in 1..Min({length, Available})
               /\ vpc' = [vpc EXCEPT !.pos = @ + n,
                                     !.remain = @ - n,
                                     !.results = Append(@, ReadResult(size, vpc.pos, n, NoError))]
    /\ UNCHANGED outsidePacket

\* the buffer handed to the Read that follows the length prefix
FirstReadLength(size, packetLength) == size

\* ReadFrom(b) at the start of a frame: the length prefix, then one Read
ReadFromFrame(size, n) ==
    /\ vpc # Unused
    /\ Len(vpc.results) < MaxReadFroms
    /\ vpc.remain <= 0
    /\ IF Available < 2
       THEN /\ n = 1
            /\ vpc' = [vpc EXCEPT !.pos = Len(vpc.inbound),
                                  !.results = Append(@, ReadResult(size, vpc.pos, 0, ErrEOF))]
       ELSE LET packetLength == vpc.inbound[vpc.pos + 1] * 256 + vpc.inbound[vpc.pos + 2]
                from == vpc.pos + 2
                avail == Available - 2
            IN IF avail = 0
               THEN /\ n = 1
                    /\ vpc' = [vpc EXCEPT !.pos = from,
                                          !.remain = IF packetLength > 0 THEN packetLength ELSE @,
                                          !.results = Append(@, ReadResult(size, from, 0, ErrEOF))]
               ELSE /\ n \in 1..Min({FirstReadLength(size, packetLength), avail})
                    /\ vpc' = [vpc EXCEPT !.pos = from + n,
                                          !.remain = IF packetLength - n > 0
                                                     THEN packetLength - n ELSE @,
                                          !.results = Append(@, ReadResult(size, from, n, NoError))]
    /\ UNCHANGED outsidePacket

NextPacket ==
    \E size \in BufferSizes : \E n \in 1..size :
        \/ ReadFromRemain(size, n)
        \/ ReadFromFrame(size, n)

SpecPacket == InitPacket /\ [][NextPacket]_vars

(***************************************************************************)
(* Claims about the packet frames                                          *)
(***************************************************************************)
\* the stream positions holding the payload of the k-th frame
PayloadPositions(frames, k) ==
    LET before == Len(FramesBytes(frames, k - 1))
    IN (before + 3)..(before + 2 + Len(frames[k]))

ReturnedPositions(r) == (r.from + 1)..(r.from + r.n)

WithinOneFrame(r) ==
    \E k \in 1..Len(vpc.frames) : ReturnedPositions(r) \subseteq PayloadPositions(vpc.frames, k)

\* C37: every ReadFrom call returns bytes of exactly one frame, never bytes
\* of the following frame or of a length prefix, whatever the buffer size and
\* however the stream delivers the bytes.
C37_ReadFromStaysInOneFrame ==
    vpc # Unused =>
       \A j \in 1..Len(vpc.results) : vpc.results[j].n > 0 => WithinOneFrame(vpc.results[j])

\* the same while every buffer handed to ReadFrom holds one byte
ReadFromStaysInOneFrameByteBuffers ==
    vpc # Unused =>
       ((\A j \in 1..Len(vpc.results) : vpc.results[j].size = 1) =>
           \A j \in 1..Len(vpc.results) : vpc.results[j].n > 0 => WithinOneFrame(vpc.results[j]))

(***************************************************************************)
(* Claims about closing an early-data WebSocket connection                 *)
(***************************************************************************)
\* C38: once Close has run on an early-data WebSocket connection the
\* connection it was created over is closed, also when Close ran before any
\* Write; and a Read waiting for the handshake returns after Close.
C38_CloseClosesTransport ==
    /\ [](wsconn.closed => wsconn.realConn = "closed")
    /\ ((wsconn.closed /\ wsconn.reader = "select") ~> wsconn.reader = "idle")

\* Close after a handshake closes the transport
CloseAfterHandshakeClosesTransport ==
    (wsconn.closed /\ wsconn.Conn # "nil") => wsconn.realConn = "closed"

\* a Read waiting for the handshake returns after Close
CloseReleasesBlockedRead ==
    (wsconn.closed /\ wsconn.reader = "select") ~> wsconn.reader = "idle"

(***************************************************************************)
(* Claims about the replies of the SOCKS4 server                           *)
(***************************************************************************)
ServerHandshakeReturned == socks.pc \in {"replied", "done"}

HeaderErrors ==
    {"version code mismatched", "command not supported",
     "request rejected because the client program and identd report different user-ids"}

RefusalWritten(reply) == Len(reply) = 8 /\ reply[1] = 0 /\ reply[2] # RequestGranted

\* C39: when ServerHandshake returns an error after the complete request
\* header (version mismatch, unsupported command, failed user-id
\* verification) it has written an 8-byte reply with a non-granted code and
\* the waiting ClientHandshake returns an error; and the reply carries code
\* 90 exactly when ServerHandshake returns no error.
C39_ErrorsAreAnsweredWithRefusal ==
    ServerHandshakeReturned =>
       /\ socks.server.err \in HeaderErrors => RefusalWritten(socks.server.reply)
       /\ (socks.server.err \in HeaderErrors /\ socks.pc = "done") => socks.clientErr # NoError
       /\ (Len(socks.server.reply) = 8 /\ socks.server.reply[2] = RequestGranted)
             <=> socks.server.err = NoError

\* the same for the failed verification alone, and code 90 with no error
VerificationFailureAnsweredWithRefusal ==
    ServerHandshakeReturned =>
       /\ socks.server.err = "request rejected because the client program and identd report different user-ids"
             => /\ RefusalWritten(socks.server.reply)
                /\ socks.pc = "done" => socks.clientErr = socks.server.err
       /\ (Len(socks.server.reply) = 8 /\ socks.server.reply[2] = RequestGranted)
             <=> socks.server.err = NoError

(***************************************************************************)
(* Resolver.ipExchange with main and fallback servers (dns)                *)
(***************************************************************************)
ExchangeIPs == {"1.1.1.1", "8.8.8.8"}

\* the fallback IP filters of a Resolver, each by the addresses it matches
FallbackIPFilters == {<<>>, <<{"8.8.8.8"}>>, <<{}, {"8.8.8.8"}>>}

\* the answer sections a server group can return
AnswerSections ==
    {<<>>,
     <<[type |-> "CNAME", ip |-> ""]>>,
     <<[type |-> "A", ip |-> "1.1.1.1"]>>,
     <<[type |-> "A", ip |-> "8.8.8.8"], [type |-> "A", ip |-> "1.1.1.1"]>>,
     <<[type |-> "CNAME", ip |-> ""], [type |-> "AAAA", ip |-> "1.1.1.1"],
       [type |-> "A", ip |-> "8.8.8.8"]>>}

ServerGroups == {"policy", "main", "fallback"}

\* what batchExchange of a group hands to its channel: a message or an error
GroupResults(g) ==
    {[from |-> g, nil |-> FALSE, answers |-> a, err |-> NoError] : a \in AnswerSections}
       \cup {[from |-> g, nil |-> TRUE, answers |-> <<>>, err |-> "all DNS requests failed"]}

Pending == [from |-> "nobody", nil |-> TRUE, answers |-> <<>>, err |-> NoError]

\* msgToIP: the addresses of the A and AAAA answers, in order
RECURSIVE msgToIP(_)
msgToIP(answers) ==
    IF answers = <<>> THEN <<>>
    ELSE (IF answers[1].type \in {"A", "AAAA"} THEN <<answers[1].ip>> ELSE <<>>)
            \o msgToIP(Tail(answers))

shouldIPFallbackFirstFilter(filters, ip) == filters # <<>> /\ ip \in filters[1]

\* Resolver.shouldIPFallback
shouldIPFallback(filters, ip) == \E k \in 1..Len(filters) : ip \in filters[k]

\* NewResolver: the fallback group, nil when none is configured, and the filters
InitExchange ==
    /\ IdleEarly
    /\ IdleWire
    /\ wk = Unused
    /\ pull = Unused
    /\ dial = Unused
    /\ vpc = Unused
    /\ \E hasFallback \in BOOLEAN, filters \in FallbackIPFilters :
          ipx = [pc |-> "new", fallbackNil |-> ~hasFallback, fallbackIPFilters |-> filters,
                 policyMatched |-> FALSE, onlyFallback |-> FALSE,
                 started |-> {}, ch |-> [g \in ServerGroups |-> Pending],
                 returned |-> Pending]

\* ipExchange(m) up to its first receive.  matched tells whether matchPolicy
\* finds servers, domainFiltered whether a fallback-domain filter matches
IpxCall(matched, domainFiltered) ==
    /\ ipx.pc = "new"
    /\ LET onlyFallback == ~ipx.fallbackNil /\ domainFiltered
       IN ipx' = [ipx EXCEPT
                     !.policyMatched = matched,
                     !.onlyFallback = ~matched /\ onlyFallback,
                     !.started = IF matched THEN {"policy"}
                                 ELSE IF onlyFallback THEN {"fallback"}
                                 ELSE IF ipx.fallbackNil THEN {"main"}
                                 ELSE {"main", "fallback"},
                     !.pc = IF matched THEN "policy"
                            ELSE IF onlyFallback THEN "fallback"
                            ELSE IF ipx.fallbackNil THEN "mainOnly"
                            ELSE "main"]
    /\ UNCHANGED outsideExchange

\* the goroutine of asyncExchange: batchExchange, then the send on ch
IpxAsyncExchange(g, res) ==
    /\ ipx # Unused
    /\ g \in ipx.started
    /\ ipx.ch[g] = Pending
    /\ res \in GroupResults(g)
    /\ ipx' = [ipx EXCEPT !.ch[g] = res]
    /\ UNCHANGED outsideExchange

\* whether ipExchange returns the result received from main
MainAccepted(filters, res) ==
    /\ res.err = NoError
    /\ msgToIP(res.answers) # <<>>
    /\ ~shouldIPFallback(filters, msgToIP(res.answers)[1])

\* res := <-msgCh and what follows it up to the return or the next receive
IpxReceiveMain ==
    /\ ipx # Unused
    /\ ipx.pc = "main"
    /\ ipx.ch["main"] # Pending
    /\ ipx' = IF MainAccepted(ipx.fallbackIPFilters, ipx.ch["main"])
              THEN [ipx EXCEPT !.pc = "returned", !.returned = ipx.ch["main"]]
              ELSE [ipx EXCEPT !.pc = "fallback"]
    /\ UNCHANGED outsideExchange

\* the receives that return what they received
IpxReceiveAndReturn ==
    /\ ipx # Unused
    /\ ipx.pc \in {"policy", "fallback", "mainOnly"}
    /\ LET g == IF ipx.pc = "mainOnly" THEN "main" ELSE ipx.pc
       IN /\ ipx.ch[g] # Pending
          /\ ipx' = [ipx EXCEPT !.pc = "returned", !.returned = ipx.ch[g]]
    /\ UNCHANGED outsideExchange

NextExchange ==
    \/ \E matched \in BOOLEAN, domainFiltered \in BOOLEAN : IpxCall(matched, domainFiltered)
    \/ \E g \in ServerGroups : \E res \in GroupResults(g) : IpxAsyncExchange(g, res)
    \/ IpxReceiveMain
    \/ IpxReceiveAndReturn

SpecExchange == InitExchange /\ [][NextExchange]_vars

(***************************************************************************)
(* Claims about ipExchange                                                 *)
(***************************************************************************)
\* the case of the claim: fallback configured, no policy, no domain filter
PlainFallbackQuery ==
    /\ ipx # Unused
    /\ ipx.pc = "returned"
    /\ ~ipx.fallbackNil
    /\ ~ipx.policyMatched
    /\ ~ipx.onlyFallback

\* main succeeded with an IP whose first address no fallback IP filter matches
MainGood ==
    LET m == ipx.ch["main"]
    IN /\ m.err = NoError
       /\ Len(msgToIP(m.answers)) >= 1
       /\ \A k \in 1..Len(ipx.fallbackIPFilters) :
             msgToIP(m.answers)[1] \notin ipx.fallbackIPFilters[k]

\* C40: for an IP query with fallback servers configured and neither a
\* policy nor a fallback-domain filter matching, ipExchange returns the main
\* servers' answer exactly when main succeeded with at least one IP whose
\* first address matches no fallback IP filter, and in every other case the
\* fallback servers' outcome, answer or error.
C40_MainUnlessFirstIPFiltered ==
    PlainFallbackQuery =>
       /\ MainGood => ipx.returned = ipx.ch["main"]
       /\ ~MainGood => (ipx.ch["fallback"] # Pending /\ ipx.returned = ipx.ch["fallback"])
       /\ ipx.returned.from = "main" <=> MainGood

\* main answered 8.8.8.8 first, which the second filter matches, and the
\* fallback's error was returned
C40_Witness ==
    /\ PlainFallbackQuery
    /\ Len(ipx.fallbackIPFilters) = 2
    /\ ipx.ch["main"].err = NoError
    /\ Len(ipx.ch["main"].answers) = 2
    /\ ipx.returned.from = "fallback"
    /\ ipx.returned.err # NoError

====
